---- MODULE Spec2Model ----
(***************************************************************************)
(* A model of the file organizer of src/dosya_siralama.py: the worker      *)
(* thread OrganizerWorker (collection, thread-count governor, chunked      *)
(* worker pool, collision-avoiding move, history file) and the undo        *)
(* handler DosyaDuzenleyici.undo_action.                                   *)
(*                                                                         *)
(* Names are written in ASCII: "Digerleri" is the category "Diğerleri",    *)
(* "Gorseller" is "Görseller".                                             *)
(*                                                                         *)
(* A path below source_folder is a record                                  *)
(*   [dir, base, sfx, ext]                                                 *)
(* dir: the directory names from source_folder down, base/ext: what        *)
(* os.path.splitext gives for the original name, sfx: the numeric          *)
(* suffixes "_1", "_2_1", ... that _move_file has appended to the stem.    *)
(***************************************************************************)
EXTENDS Integers, Sequences, FiniteSets, TLC

(* ------------------------------ bounds -------------------------------- *)
\* files that exist in the directory tree before the first run
MaxFiles == 3
\* largest value the user sets in the thread spin box
MaxThreads == 2
\* runs started in one behaviour of Spec
MaxRuns == 1
\* runs started in one behaviour of SpecHist
HistRuns == 6

(* ------------------------------ helpers -------------------------------- *)
Min(a, b) == IF a < b THEN a ELSE b
Max(a, b) == IF a > b THEN a ELSE b
Range(s) == {s[i] : i \in DOMAIN s}
Get(d, k) == IF k \in DOMAIN d THEN d[k] ELSE 0
Put(d, k, v) == [x \in (DOMAIN d) \cup {k} |-> IF x = k THEN v ELSE d[x]]
EmptyMap == [x \in {} |-> 0]

(* ----------------------------- file names ------------------------------ *)
Root == <<>>
Path(dir, base, sfx, ext) == [dir |-> dir, base |-> base, sfx |-> sfx, ext |-> ext]
\* os.path.basename: the name without its directory
basename(p) == [base |-> p.base, sfx |-> p.sfx, ext |-> p.ext]
\* os.path.join(target_dir, filename)
join(dir, name) == Path(dir, name.base, name.sfx, name.ext)
\* f"{name}_{counter}{ext}" with name, ext = os.path.splitext(filename)
suffixed(name, counter) == [base |-> name.base, sfx |-> Append(name.sfx, counter), ext |-> name.ext]

\* the reserved history file name, ".dosya_sirala_duzenle_gecmis.json"
log_file == [base |-> ".dosya_sirala_duzenle_gecmis", sfx |-> <<>>, ext |-> ".json"]
log_path == join(Root, log_file)

(* ---------------------------- configuration ---------------------------- *)
\* default_config["ignore_patterns"]
ignore_patterns ==
  { [base |-> ".git", sfx |-> <<>>, ext |-> ""],
    [base |-> ".svn", sfx |-> <<>>, ext |-> ""],
    [base |-> ".idea", sfx |-> <<>>, ext |-> ""],
    [base |-> "__pycache__", sfx |-> <<>>, ext |-> ""],
    [base |-> "Thumbs", sfx |-> <<>>, ext |-> ".db"],
    [base |-> ".DS_Store", sfx |-> <<>>, ext |-> ""],
    [base |-> "desktop", sfx |-> <<>>, ext |-> ".ini"] }

\* default_config["max_file_size"], 500 * 1024 * 1024 bytes
max_file_size == 524288000

\* default_config["kategoriler"], in insertion order, with the extensions the
\* model's files use
kategoriler ==
  << [name |-> "Gorseller", exts |-> {".jpg", ".jpeg", ".png", ".gif", ".bmp"}],
     [name |-> "Belgeler", exts |-> {".pdf", ".docx", ".doc", ".txt", ".md"}],
     [name |-> "Ofis_Dosyalari", exts |-> {".xlsx", ".xls", ".pptx", ".csv"}],
     [name |-> "Sistem", exts |-> {".dll", ".sys", ".ini", ".cfg"}] >>

\* OrganizerWorker._determine_category with ai_modu off: the first category of
\* the table that lists the extension, "Digerleri" when none does
_determine_category(filepath) ==
  LET hits == {i \in DOMAIN kategoriler : filepath.ext \in kategoriler[i].exts}
  IN IF hits = {}
       THEN [category |-> "Digerleri", subcategory |-> "", objects |-> <<>>]
       ELSE [category |-> kategoriler[CHOOSE i \in hits : \A j \in hits : i <= j].name,
             subcategory |-> "", objects |-> <<>>]

\* the category directory itself, whatever the subcategory
target_dir_flat(c) == <<c.category>>

\* target_dir of _process_file_chunk: source_folder/category[/subcategory]
target_dir_of(c) ==
  IF c.subcategory # "" THEN <<c.category, c.subcategory>> ELSE <<c.category>>

(* ------------------------------ file system ---------------------------- *)
\* the file system below source_folder: a function from the paths of the
\* existing files to their contents
Exists(f, p) == p \in DOMAIN f

\* shutil.move(src, dst) of a file that exists: the file is renamed, a file
\* that was at dst is replaced
MoveInFs(f, src, dst) ==
  [p \in ((DOMAIN f) \ {src}) \cup {dst} |-> IF p = dst THEN f[src] ELSE f[p]]

Content(id, size) == [kind |-> "file", id |-> id, size |-> size, runs |-> <<>>, text |-> <<>>]
\* a document from which extract_text gets `text`
Document(id, size, text) == [Content(id, size) EXCEPT !.text = text]
\* the history file holding the list `runs` (json.dump(existing_logs, f))
LogContent(runs) == [kind |-> "log", id |-> 0, size |-> 1, runs |-> runs, text |-> <<>>]

(* ------------------------- thread-count governor ----------------------- *)
\* A telemetry sample t: psutil (PSUTIL_AVAILABLE), raises (a psutil call
\* raises), cpu_count (psutil.cpu_count(logical=True), 0 for None),
\* cpu_percent, memory_percent, memory_mib (memory.total in MiB).
absolute_ceiling == 32
cpu_threshold == 70
memory_threshold == 80
\* 4 GiB in MiB: memory_gb < 4
low_ram_mib == 4096
rule3_floor == 2
rule4_floor == 2

\* "psutil.cpu_count(logical=True) or 2"
cpu_count_of(t) == IF t.cpu_count = 0 THEN 2 ELSE t.cpu_count

\* max_by_cpu_type[cpu_type]
cpu_limit_of(cpu_count) ==
  IF cpu_count <= 4 THEN Min(4, cpu_count * 2)
  ELSE IF cpu_count <= 8 THEN Min(8, cpu_count * 2)
  ELSE Min(16, cpu_count * 2)

\* rule 1 with the half of the file count rounded up
rule1_ceil(total_files, n) ==
  IF total_files < n * 2 THEN Max(1, (total_files + 1) \div 2) ELSE n

\* KURAL 1: fewer than 2 files per thread
rule1(total_files, n) == IF total_files < n * 2 THEN Max(1, total_files \div 2) ELSE n
\* no ceiling of the processor class
rule2_off(cpu_count, n) == n

\* KURAL 2: the ceiling of the processor class
rule2(cpu_count, n) == IF n > cpu_limit_of(cpu_count) THEN cpu_limit_of(cpu_count) ELSE n
\* KURAL 3: int(n * 0.6), at least 2, when the CPU is busy
rule3(cpu_percent, n) ==
  IF cpu_percent > cpu_threshold THEN Max(rule3_floor, (n * 6) \div 10) ELSE n
\* KURAL 4: int(n * 0.7), at least 2, when memory is short
rule4(memory_percent, n) ==
  IF memory_percent > memory_threshold THEN Max(rule4_floor, (n * 7) \div 10) ELSE n
\* KURAL 5: at most 4 threads below 4 GiB
rule5(memory_mib, n) == IF memory_mib < low_ram_mib THEN Min(n, 4) ELSE n
\* KURAL 6: the final clamp
rule6(n) == Max(1, Min(n, absolute_ceiling))

\* OrganizerWorker._optimize_thread_count
_optimize_thread_count(enable_optimization, t, total_files, requested_threads) ==
  IF ~enable_optimization \/ ~t.psutil
    THEN Min(requested_threads, absolute_ceiling)
  ELSE IF t.raises
    THEN Min(requested_threads, 4)
  ELSE rule6(rule5(t.memory_mib,
         rule4(t.memory_percent,
           rule3(t.cpu_percent,
             rule2(cpu_count_of(t),
               rule1(total_files, requested_threads))))))

(* ------------------------------- chunks -------------------------------- *)
\* the chunk size rounded down instead of up
chunk_size_floor(total, thread_count) == Max(1, total \div thread_count)

\* chunk_size = (total + thread_count - 1) // thread_count
chunk_size(total, thread_count) == (total + thread_count - 1) \div thread_count
\* the bounds of chunk i (0-based), start_idx inclusive, end_idx exclusive
start_idx(i, total, thread_count) == i * chunk_size(total, thread_count)
end_idx(i, total, thread_count) ==
  Min(start_idx(i, total, thread_count) + chunk_size(total, thread_count), total)

\* the chunks submitted by the loop "for i in range(thread_count)" of
\* _process_files_multithreaded, in order of submission: files[start_idx:end_idx]
\* for every i with start_idx < end_idx
RECURSIVE submitted(_, _, _)
submitted(files, thread_count, i) ==
  IF i >= thread_count THEN <<>>
  ELSE LET total == Len(files)
           s == start_idx(i, total, thread_count)
           e == end_idx(i, total, thread_count)
       IN (IF s < e THEN << [start_index |-> s, file_chunk |-> SubSeq(files, s + 1, e)] >>
                    ELSE <<>>)
          \o submitted(files, thread_count, i + 1)

(* ------------------------- the progress percentage --------------------- *)
\* "progress = int((self.processed_counter / total_files) * 100)": a division
\* and a multiplication of IEEE 754 doubles, each rounded to nearest (ties to
\* even) to a mantissa of 53 bits, then truncated. A mantissa is a sequence of
\* limbs of 15 binary digits, least significant limb first; a double is
\* [m, e] with the value m * 2^(-e).
mantissa_bits == 53
limb_bits == 15
limb_base == 2 ^ limb_bits
quotient_limbs == 4

\* the number of zeros that follow the binary point of k/t, for 0 < k < t
RECURSIVE leading_zeros(_, _)
leading_zeros(r, t) == IF 2 * r >= t THEN 0 ELSE 1 + leading_zeros(2 * r, t)

\* the first n limbs of the binary expansion of r/t (r < t), and the remainder
RECURSIVE long_division(_, _, _)
long_division(r, t, n) ==
  IF n = 0 THEN [limbs |-> <<>>, rem |-> r]
  ELSE LET d == (r * limb_base) \div t
           rest == long_division((r * limb_base) % t, t, n - 1)
       IN [limbs |-> Append(rest.limbs, d), rem |-> rest.rem]

RECURSIVE mul_small(_, _, _)
mul_small(limbs, c, carry) ==
  IF limbs = <<>> THEN (IF carry = 0 THEN <<>> ELSE <<carry>>)
  ELSE LET p == Head(limbs) * c + carry
       IN <<p % limb_base>> \o mul_small(Tail(limbs), c, p \div limb_base)

RECURSIVE add_one(_)
add_one(limbs) ==
  IF limbs = <<>> THEN <<1>>
  ELSE IF Head(limbs) + 1 < limb_base THEN <<Head(limbs) + 1>> \o Tail(limbs)
  ELSE <<0>> \o add_one(Tail(limbs))

RECURSIVE bit_length_of(_)
bit_length_of(x) == IF x = 0 THEN 0 ELSE 1 + bit_length_of(x \div 2)

RECURSIVE bit_length(_)
bit_length(limbs) ==
  IF limbs = <<>> THEN 0
  ELSE IF limbs[Len(limbs)] = 0 THEN bit_length(SubSeq(limbs, 1, Len(limbs) - 1))
  ELSE (Len(limbs) - 1) * limb_bits + bit_length_of(limbs[Len(limbs)])

\* binary digit i of a mantissa, digit 1 being the least significant
bit_at(limbs, i) ==
  (limbs[((i - 1) \div limb_bits) + 1] \div (2 ^ ((i - 1) % limb_bits))) % 2

\* the mantissa without its s lowest binary digits
shift_right(limbs, s) ==
  LET whole == s \div limb_bits
      d == s % limb_bits
      rest == IF whole >= Len(limbs) THEN <<>>
              ELSE SubSeq(limbs, whole + 1, Len(limbs))
      above(i) == IF i < Len(rest) THEN rest[i + 1] ELSE 0
  IN [i \in 1..Len(rest) |->
        (rest[i] \div (2 ^ d)) + (above(i) % (2 ^ d)) * (2 ^ (limb_bits - d))]

RECURSIVE value_of(_)
value_of(limbs) ==
  IF limbs = <<>> THEN 0 ELSE Head(limbs) + limb_base * value_of(Tail(limbs))

\* drop the d lowest digits, rounding to nearest, ties to even; "sticky" says
\* that the exact value has nonzero digits below those of limbs
round_nearest(limbs, d, sticky) ==
  LET kept == shift_right(limbs, d)
      half == d > 0 /\ bit_at(limbs, d) = 1
      below == sticky \/ \E i \in 1..(d - 1) : bit_at(limbs, i) = 1
      up == half /\ (below \/ bit_at(kept, 1) = 1)
  IN IF up THEN add_one(kept) ELSE kept

\* a rounding that carried into a 54th digit leaves a power of two
normalise(m, e) ==
  IF bit_length(m) > mantissa_bits THEN [m |-> shift_right(m, 1), e |-> e - 1]
  ELSE [m |-> m, e |-> e]

\* k / t for 0 < k < t
float_div(k, t) ==
  LET z == leading_zeros(k, t)
      q == long_division(k * (2 ^ z), t, quotient_limbs)
      d == quotient_limbs * limb_bits - mantissa_bits
  IN normalise(round_nearest(q.limbs, d, q.rem # 0), z + mantissa_bits)

\* x * 100
float_mul_100(x) ==
  LET p == mul_small(x.m, 100, 0)
      d == bit_length(p) - mantissa_bits
  IN normalise(round_nearest(p, d, FALSE), x.e - d)

\* int(x) for 0 <= x
float_int(x) == value_of(shift_right(x.m, x.e))

\* the value the specification gives: the floor of the exact quotient
progress_percent_exact(processed_counter_, total_files) ==
  (100 * processed_counter_) \div total_files

\* the value the code computes; k/k is exactly 1.0 and 1.0 * 100 exactly 100.0
progress_percent(processed_counter_, total_files) ==
  IF processed_counter_ = 0 THEN 0
  ELSE IF processed_counter_ = total_files THEN 100
  ELSE float_int(float_mul_100(float_div(processed_counter_, total_files)))

\* the values of progress_percent for the runs of the worker model: the
\* largest file list a run of it collects, and for every total of at most that
\* many files the value emitted at each counter value
RunMaxTotal == 10
run_percent ==
  [total_files \in 1..RunMaxTotal |->
     [processed_counter_ \in 1..total_files |->
        progress_percent(processed_counter_, total_files)]]

(* --------------------------- document analysis ------------------------- *)
\* DocumentAnalyzer.categories, in insertion order, every list as it is
\* written (Saglik lists "tedavi" twice)
categories ==
  << [name |-> "Finans",
      keywords |-> <<"butce", "fatura", "odeme", "bank", "para", "hesap", "mali", "finans",
                     "kredi", "borc", "yatirim", "borsa", "doviz", "vergi", "maas">>],
     [name |-> "Egitim",
      keywords |-> <<"ders", "odev", "proje", "sinav", "okul", "universite", "egitim",
                     "ogrenci", "not", "sinif", "kurs", "seminer", "akademik", "tez",
                     "ders notu">>],
     [name |-> "Is",
      keywords |-> <<"rapor", "toplanti", "proje", "sunum", "is", "sirket", "yonetim",
                     "strateji", "plan", "calisan", "mudur", "musteri", "satis", "pazarlama",
                     "insan kaynaklari">>],
     [name |-> "Teknik",
      keywords |-> <<"kod", "yazilim", "donanim", "teknik", "sistem", "network", "server",
                     "database", "program", "algoritma", "yapay zeka", "machine learning",
                     "veri", "analiz">>],
     [name |-> "Saglik",
      keywords |-> <<"saglik", "hasta", "tedavi", "rapor", "ilac", "doktor", "hastane",
                     "muayene", "tahlil", "recete", "ameliyat", "tedavi", "psikoloji",
                     "terapi">>],
     [name |-> "Hukuk",
      keywords |-> <<"sozlesme", "kanun", "yasa", "hukuk", "dava", "avukat", "mahkeme",
                     "anlasma", "taraflar", "madde", "yargi", "ceza", "hukum", "temyiz">>],
     [name |-> "Kisisel",
      keywords |-> <<"cv", "ozgecmis", "mektup", "kisisel", "iletisim", "aile", "arkadas",
                     "ev", "tatil", "gezi", "gunluk", "ani", "fotograf", "video">>],
     [name |-> "Arastirma",
      keywords |-> <<"arastirma", "makale", "tez", "bilim", "akademik", "yayin", "doktora",
                     "literatur", "deney", "sonuc", "hipotez", "bulgu", "analiz">>],
     [name |-> "Tasarim",
      keywords |-> <<"tasarim", "cizim", "grafik", "resim", "sekil", "layout", "ui", "ux",
                     "renk", "font", "illustrasyon", "mockup", "prototip">>],
     [name |-> "Yonetim",
      keywords |-> <<"plan", "strateji", "hedef", "performans", "kalite", "surec",
                     "proje yonetimi", "risk", "butce", "kpi", "rapor", "analiz", "karar">>] >>

\* DocumentAnalyzer.turkish_stopwords
turkish_stopwords ==
  {"acaba", "ama", "aslinda", "az", "bazi", "belki", "biri", "birkac", "birsey", "biz",
   "bu", "cok", "cunku", "da", "daha", "de", "defa", "diye", "eger", "en", "gibi", "hem",
   "hep", "hepsi", "her", "hic", "icin", "ile", "ise", "kez", "ki", "kim", "mi", "mu",
   "nasil", "ne", "neden", "nerde", "nerede", "nereye", "nicin", "niye", "o", "sanki",
   "sey", "siz", "su", "tum", "ve", "veya", "ya", "yani"}

\* A text is a sequence of pieces separated by single blanks. A piece is
\* written as it stands in the file (raw, `chars` characters long) together
\* with what text.lower(), re.sub(r'[^\w\s]', ' ', ...) and split() make of it:
\* its tokens, each with its length.
Token(w, len) == [w |-> w, len |-> len]
Piece(raw, chars, tokens) == [raw |-> raw, chars |-> chars, tokens |-> tokens]

Vocabulary ==
  { Piece("Fatura,", 7, <<Token("fatura", 6)>>),
    Piece("vergi", 5, <<Token("vergi", 5)>>),
    Piece("tedavi", 6, <<Token("tedavi", 6)>>),
    Piece("rapor", 5, <<Token("rapor", 5)>>),
    Piece("icin", 4, <<Token("icin", 4)>>),
    Piece("is", 2, <<Token("is", 2)>>),
    Piece("kedi", 4, <<Token("kedi", 4)>>),
    Piece("aile", 4, <<Token("aile", 4)>>),
    Piece("odeme-plan", 10, <<Token("odeme", 5), Token("plan", 4)>>),
    Piece("lorem-ipsum-(120)", 120, <<Token("lorem", 5), Token("ipsum", 5)>>) }

RECURSIVE text_chars(_)
\* len(text): the characters of the pieces and the blanks between them
text_chars(text) ==
  IF text = <<>> THEN 0
  ELSE Head(text).chars + (IF Len(text) > 1 THEN 1 ELSE 0) + text_chars(Tail(text))

RECURSIVE split_words(_)
\* "words = text_clean.split()"
split_words(text) ==
  IF text = <<>> THEN <<>> ELSE Head(text).tokens \o split_words(Tail(text))

min_word_length == 2
keep_word(t) == t.w \notin turkish_stopwords /\ t.len > min_word_length

\* "words_filtered = [w for w in words if w not in stopwords and len(w) > 2]"
words_filtered(text) == SelectSeq(split_words(text), keep_word)

\* Counter(words_filtered).get(keyword, 0)
word_counter(words, keyword) == Cardinality({i \in DOMAIN words : words[i].w = keyword})

RECURSIVE score_of(_, _)
\* "for keyword in keywords: score += word_counter.get(keyword, 0)"
score_of(keywords, words) ==
  IF keywords = <<>> THEN 0
  ELSE word_counter(words, Head(keywords)) + score_of(Tail(keywords), words)

keyword_threshold == 2
detects(c, words) == score_of(c.keywords, words) >= keyword_threshold

\* DocumentAnalyzer._keyword_analysis: the categories detected, in the order
\* of the table
RECURSIVE detected_from(_, _)
detected_from(k, words) ==
  IF k > Len(categories) THEN <<>>
  ELSE (IF detects(categories[k], words) THEN <<categories[k].name>> ELSE <<>>)
         \o detected_from(k + 1, words)
_keyword_analysis(text) == detected_from(1, words_filtered(text))

\* the number of tokens of the text that are keywords of category c
occurrences(c, text) ==
  Cardinality({i \in DOMAIN split_words(text) :
                 \E k \in DOMAIN c.keywords : split_words(text)[i].w = c.keywords[k]})

\* "if score > 0.3", the scores in hundredths
confidence_threshold == 30
above_threshold_or_equal(score) == score >= confidence_threshold
above_threshold(score) == score > confidence_threshold

\* what a call of self.ai_pipeline does: it returns result['labels'] with
\* result['scores'], highest score first, or it raises
Scored(label, score) == [label |-> label, score |-> score]
Returned(scored) == [raises |-> FALSE, scored |-> scored]
Raises == [raises |-> TRUE, scored |-> <<>>]

\* The zero-shot pipeline is a fixed function of its input text[:500]; here it
\* scores "Kisisel" 0.90 for a text with "kedi" and "Finans" 0.80 for one with
\* "vergi", "Egitim" 0.30 for every text and all other labels below that.
ai_pipeline(text) ==
  LET kedi == \E i \in DOMAIN text : text[i].raw = "kedi"
      vergi == \E i \in DOMAIN text : text[i].raw = "vergi"
  IN Returned((IF kedi THEN <<Scored("Kisisel", 90)>> ELSE <<>>)
                \o (IF vergi THEN <<Scored("Finans", 80)>> ELSE <<>>)
                \o <<Scored("Egitim", 30)>>
                \o (IF vergi THEN <<>> ELSE <<Scored("Finans", 20)>>)
                \o (IF kedi THEN <<>> ELSE <<Scored("Kisisel", 10)>>)
                \o <<Scored("Is", 5), Scored("Teknik", 5), Scored("Saglik", 5),
                     Scored("Hukuk", 5), Scored("Arastirma", 5), Scored("Tasarim", 5),
                     Scored("Yonetim", 5)>>)

\* DocumentAnalyzer._ai_analysis for an outcome of the pipeline call: the labels
\* scored above 0.3 in the order of the result, [] when the call raises
counts_as_detected(s) == above_threshold(s.score)
_ai_analysis_on(outcome) ==
  IF outcome.raises THEN <<>>
  ELSE LET kept == SelectSeq(outcome.scored, counts_as_detected)
       IN [i \in DOMAIN kept |-> kept[i].label]

\* DocumentAnalyzer._ai_analysis
_ai_analysis(text) == _ai_analysis_on(ai_pipeline(text))

\* Counter(all).most_common(): by count, largest first, equal counts in the
\* order of first occurrence
count_in(all, c) == Cardinality({i \in DOMAIN all : all[i] = c})
first_at(all, c) == CHOOSE i \in DOMAIN all : all[i] = c /\ \A j \in 1..(i - 1) : all[j] # c
RECURSIVE most_common_by_last(_, _)
\* equal counts in the order of last occurrence, latest first
most_common_by_last(all, rest) ==
  IF rest = {} THEN <<>>
  ELSE LET last_at(c) == CHOOSE i \in DOMAIN all : all[i] = c /\ \A j \in (i + 1)..Len(all) : all[j] # c
           best == CHOOSE c \in rest : \A d \in rest \ {c} :
                     \/ count_in(all, c) > count_in(all, d)
                     \/ count_in(all, c) = count_in(all, d) /\ last_at(c) > last_at(d)
       IN <<best>> \o most_common_by_last(all, rest \ {best})

RECURSIVE most_common(_, _)
most_common(all, rest) ==
  IF rest = {} THEN <<>>
  ELSE LET best == CHOOSE c \in rest : \A d \in rest \ {c} :
                     \/ count_in(all, c) > count_in(all, d)
                     \/ count_in(all, c) = count_in(all, d) /\ first_at(all, c) < first_at(all, d)
       IN <<best>> \o most_common(all, rest \ {best})

min_content_length == 20
min_ai_length == 100
max_related == 2

\* DocumentAnalyzer.analyze_content for an outcome of the pipeline call, should
\* it be made: the main category and the related ones
analyze_content_on(text, initialized, outcome) ==
  IF text = <<>> \/ text_chars(text) < min_content_length
    THEN [category |-> "Diger_Belgeler", related |-> <<>>]
  ELSE LET keyword_categories == _keyword_analysis(text)
           ai_categories == IF initialized /\ text_chars(text) > min_ai_length
                              THEN _ai_analysis_on(outcome) ELSE <<>>
           all_categories == keyword_categories \o ai_categories
           ranked == most_common(all_categories, Range(all_categories))
       IN IF all_categories = <<>>
            THEN [category |-> "Diger_Belgeler", related |-> <<>>]
            ELSE [category |-> ranked[1],
                  related |-> SubSeq(ranked, 2, Min(Len(ranked), max_related + 1))]

\* DocumentAnalyzer.analyze_content
analyze_content(text, initialized) == analyze_content_on(text, initialized, ai_pipeline(text))

\* "_".join(related_categories[:2])
RECURSIVE joined(_)
joined(names) ==
  IF names = <<>> THEN ""
  ELSE IF Len(names) = 1 THEN names[1]
  ELSE names[1] \o "_" \o joined(Tail(names))

\* OrganizerWorker._determine_document_category for a file with this text: no
\* text gives "Belgeler"; the subcategory is the related categories joined
_determine_document_category(text, initialized) ==
  IF text = <<>> THEN [category |-> "Belgeler", subcategory |-> "", objects |-> <<>>]
  ELSE LET a == analyze_content(text, initialized)
       IN [category |-> a.category,
           subcategory |-> IF a.related = <<>> THEN ""
                           ELSE joined(SubSeq(a.related, 1, Min(Len(a.related), max_related))),
           objects |-> <<>>]

(* -------------------------------- state -------------------------------- *)
VARIABLES
  fs,                \* the files below source_folder: path -> content
  phase,             \* "idle", "running" while worker threads are at work, or
                     \* "aborting" while run() waits for them after the pool failed
  settings,          \* the settings a run is started with: include_subfolders
                     \* (cb_subfolders), thread_count (spin_threads),
                     \* enable_optimization (config["enable_system_optimization"]),
                     \* document_ai_modu, and initialized: whether the
                     \* DocumentAnalyzer of the run loads its zero-shot pipeline
  chunks,            \* the submitted chunks, one per worker
  wk,                \* per worker: pc, i (position in its chunk), tmp (the
                     \* values read inside a critical section), new_path, counter
  lock,              \* self.lock: 0 when free, else the worker holding it
  processed_counter, \* self.processed_counter
  stats,             \* self.stats
  log_entries,       \* self.log_entries
  budget,            \* what is left of the bounds: runs, faults, arrivals
  probe,             \* the inputs and the result of a function applied on its own
  signals,           \* self.signals of the worker object of the run: the progress
                     \* values, the number of error and stats_update events and
                     \* the finished flags emitted so far
  max_workers,       \* ThreadPoolExecutor(max_workers=thread_count) of the last run
                     \* that built a pool: the size of the pool, 0 before
  under_lock,        \* history variable: the calls made in this run by a worker
                     \* that held self.lock
  raised,            \* history variable: the exceptions raised in the workers of this
                     \* run, each with the file it was raised for
  moved,             \* history variable: the moves shutil.move made in this run
  at_start,          \* history variable: fs when the last run started
  last_op            \* history variable: the last operation that completed

vars == <<fs, phase, settings, chunks, wk, lock, processed_counter, stats,
          log_entries, budget, probe, signals, max_workers, under_lock, raised, moved,
          at_start, last_op>>

\* the value of last_op after an operation that restores nothing
Op(name) == [op |-> name, restored |-> 0, failed |-> 0, attempted |-> {}, moved_back |-> {}]

NoProbe == [kind |-> "none"]

\* the signals of a fresh worker object: nothing emitted
NoSignals == [progress |-> <<>>, error |-> 0, stats_update |-> 0, finished |-> <<>>]

ZeroStats ==
  [total_files |-> 0, processed_files |-> 0, skipped_files |-> 0, total_size |-> 0,
   category_distribution |-> EmptyMap, document_categories |-> EmptyMap, errors |-> <<>>,
   thread_count_used |-> 0, processing_time |-> 0]

NoTmp == [processed_counter |-> 0, stats |-> ZeroStats, log_entries |-> <<>>]
NoPath == Path(Root, "", <<>>, "")
NoDecision == [category |-> "", subcategory |-> "", objects |-> <<>>]

\* what a worker reads of the shared state inside a critical section
Snapshot == [processed_counter |-> processed_counter, stats |-> stats,
             log_entries |-> log_entries]

(* ----------------------------- collection ------------------------------ *)
IsPrefix(d, e) == Len(d) <= Len(e) /\ SubSeq(e, 1, Len(d)) = d

\* a directory os.walk prunes: "dirs[:] = [d for d in dirs if d not in ignore_patterns]"
pruned(dir) ==
  \E n \in DOMAIN dir : \E pat \in ignore_patterns : pat.ext = "" /\ pat.sfx = <<>> /\ pat.base = dir[n]

\* the files _collect_files looks at: those of source_folder itself, or of the
\* whole tree with include_subfolders, whose name is not in ignore_patterns
visited(f, include_subfolders) ==
  {p \in DOMAIN f : /\ (include_subfolders \/ p.dir = Root)
                    /\ basename(p) \notin ignore_patterns
                    /\ ~pruned(p.dir)}

\* the files it returns, and those it counts as skipped (larger than max_file_size)
collected(f, include_subfolders) ==
  {p \in visited(f, include_subfolders) : f[p].size <= max_file_size}
too_large(f, include_subfolders) ==
  {p \in visited(f, include_subfolders) : f[p].size > max_file_size}

\* the orders in which os.walk(topdown) / os.listdir can list a set of files:
\* the files of a directory before those of its subdirectories, every subtree
\* in one piece, names within a directory in any order
Orders(S) ==
  {s \in [1..Cardinality(S) -> S] :
     /\ \A i, j \in 1..Cardinality(S) : i # j => s[i] # s[j]
     /\ \A i, j \in 1..Cardinality(S) :
          i < j => ~(s[j].dir # s[i].dir /\ IsPrefix(s[j].dir, s[i].dir))
     /\ \A i, j, k \in 1..Cardinality(S) :
          (i < j /\ j < k) =>
            \A n \in 1..Len(s[i].dir) :
              IsPrefix(SubSeq(s[i].dir, 1, n), s[k].dir)
                => IsPrefix(SubSeq(s[i].dir, 1, n), s[j].dir)}

\* _collect_files: the list returned and the number of skipped files
_collect_files(f, include_subfolders) ==
  {[files |-> o, skipped |-> Cardinality(too_large(f, include_subfolders))] :
     o \in Orders(collected(f, include_subfolders))}

(* ----------------------------- telemetry ------------------------------- *)
\* the samples psutil gives in the runs of the worker model
RunTelemetry ==
  [psutil : BOOLEAN, raises : {FALSE}, cpu_count : {4}, cpu_percent : {50, 90},
   memory_percent : {50}, memory_mib : {8192}]

(* ------------------------------ the run -------------------------------- *)
\* start_organization, setup and run up to the submission of the chunks:
\* a fresh worker object, _collect_files, then either finished(False) for an
\* empty list or _optimize_thread_count and one submitted chunk per worker
StartRun ==
  /\ phase = "idle"
  /\ budget.runs > 0
  /\ \E t \in RunTelemetry :
       \E c \in _collect_files(fs, settings.include_subfolders) :
         LET total == Len(c.files)
             optimal_threads ==
               _optimize_thread_count(settings.enable_optimization, t, total,
                                      settings.thread_count)
             subm == IF total = 0 THEN <<>> ELSE submitted(c.files, optimal_threads, 0)
         IN /\ stats' = [ZeroStats EXCEPT !.total_files = total, !.skipped_files = c.skipped]
            /\ chunks' = subm
            /\ wk' = [w \in DOMAIN subm |->
                        [pc |-> "begin", i |-> 1, tmp |-> NoTmp, new_path |-> NoPath,
                         counter |-> 0, err |-> "", decision |-> NoDecision]]
            /\ phase' = IF total = 0 THEN "idle" ELSE "running"
            /\ last_op' = Op(IF total = 0 THEN "empty_run" ELSE "start")
            /\ signals' = [NoSignals EXCEPT !.finished = IF total = 0 THEN <<FALSE>> ELSE <<>>]
            /\ max_workers' = IF total = 0 THEN max_workers ELSE optimal_threads
  /\ log_entries' = <<>>
  /\ processed_counter' = 0
  /\ lock' = 0
  /\ moved' = <<>>
  /\ raised' = <<>>
  /\ at_start' = fs
  /\ under_lock' = {}
  /\ budget' = [budget EXCEPT !.runs = @ - 1]
  /\ UNCHANGED <<probe, fs, settings>>

\* _collect_files when os.listdir(self.source_folder) raises: the error is
\* emitted, the list is empty, and run() ends with finished(False, stats)
CollectRaises ==
  /\ phase = "idle"
  /\ budget.runs > 0 /\ budget.faults > 0
  /\ ~settings.include_subfolders
  /\ stats' = ZeroStats
  /\ chunks' = <<>>
  /\ wk' = <<>>
  /\ signals' = [NoSignals EXCEPT !.error = 1, !.finished = <<FALSE>>]
  /\ max_workers' = max_workers
  /\ last_op' = Op("empty_run")
  /\ log_entries' = <<>>
  /\ processed_counter' = 0
  /\ lock' = 0
  /\ moved' = <<>>
  /\ raised' = <<>>
  /\ at_start' = fs
  /\ under_lock' = {}
  /\ budget' = [budget EXCEPT !.runs = @ - 1, !.faults = @ - 1]
  /\ UNCHANGED <<probe, fs, settings, phase>>

\* executor.submit raises after nsub chunks were submitted (no thread can be
\* started): leaving "with ThreadPoolExecutor" waits for the workers already
\* submitted, then the exception reaches the except block of run()
PoolRaises ==
  /\ phase = "idle"
  /\ budget.runs > 0 /\ budget.faults > 0
  /\ \E t \in RunTelemetry :
       \E c \in _collect_files(fs, settings.include_subfolders) :
         LET total == Len(c.files)
             optimal_threads ==
               _optimize_thread_count(settings.enable_optimization, t, total,
                                      settings.thread_count)
             subm == IF total = 0 THEN <<>> ELSE submitted(c.files, optimal_threads, 0)
         IN /\ total > 0
            /\ \E nsub \in 0..(Len(subm) - 1) :
                 /\ chunks' = SubSeq(subm, 1, nsub)
                 /\ wk' = [w \in 1..nsub |->
                             [pc |-> "begin", i |-> 1, tmp |-> NoTmp, new_path |-> NoPath,
                              counter |-> 0, err |-> "", decision |-> NoDecision]]
            /\ stats' = [ZeroStats EXCEPT !.total_files = total, !.skipped_files = c.skipped]
            /\ max_workers' = optimal_threads
  /\ phase' = "aborting"
  /\ last_op' = Op("start")
  /\ signals' = NoSignals
  /\ log_entries' = <<>>
  /\ processed_counter' = 0
  /\ lock' = 0
  /\ moved' = <<>>
  /\ raised' = <<>>
  /\ at_start' = fs
  /\ under_lock' = {}
  /\ budget' = [budget EXCEPT !.runs = @ - 1, !.faults = @ - 1]
  /\ UNCHANGED <<probe, fs, settings>>

\* worker threads of a run are alive: the run goes on, or waits for them
\* before it reports the failure of the pool
Running == phase \in {"running", "aborting"}

\* the file worker w is processing
filepath_of(w) == chunks[w].file_chunk[wk[w].i]
\* the extensions _process_file_chunk hands to the document analysis
document_extensions == {".pdf", ".docx", ".pptx", ".xlsx", ".xls", ".txt", ".md"}

\* no file handed to the document analysis
is_document_never(w) == FALSE

\* "if self.document_ai_modu and ext in [...]"
is_document(w) == settings.document_ai_modu /\ filepath_of(w).ext \in document_extensions

\* the text read together with what is left of the text analysed before it
analyzed_text_carried(w) ==
  (IF Exists(fs, filepath_of(w)) THEN fs[filepath_of(w)].text ELSE <<>>)
    \o (IF moved = <<>> THEN <<>> ELSE at_start[moved[1].old_path].text)

\* the text extract_text reads from the file (nothing when it is not there)
analyzed_text(w) == IF Exists(fs, filepath_of(w)) THEN fs[filepath_of(w)].text ELSE <<>>

\* the category decision of _process_file_chunk for the file: by content for a
\* document in document mode, else by extension
classified(w) ==
  IF is_document(w)
    THEN _determine_document_category(analyzed_text(w), settings.initialized)
    ELSE _determine_category(filepath_of(w))

\* category, subcategory and detected_objects once the file is classified
decision_of(w) == wk[w].decision
target_dir(w) == target_dir_of(decision_of(w))

\* no lock at all
LockFree_always == TRUE

\* a critical section that is left with the lock still held by the worker
released_kept == lock

\* the value of the lock once "with self.lock:" is left, by its last statement
\* or by an exception
released == 0

\* "with self.lock": the lock can be taken
LockFree == lock = 0

\* a loop that is left after its first iteration
NextFile_return(w, r) ==
  [r EXCEPT !.i = Len(chunks[w].file_chunk) + 1, !.tmp = NoTmp, !.new_path = NoPath,
            !.counter = 0, !.err = "", !.decision = NoDecision, !.pc = "done"]

\* the end of one iteration of "for i, filepath in enumerate(file_chunk)"
NextFile(w, r) ==
  [r EXCEPT !.i = @ + 1, !.tmp = NoTmp, !.new_path = NoPath, !.counter = 0, !.err = "",
            !.decision = NoDecision,
            !.pc = IF r.i + 1 > Len(chunks[w].file_chunk) THEN "done" ELSE "begin"]

\* "with self.lock:" of the progress block: the lock is taken and
\* processed_counter is read
CounterEnter(w) ==
  /\ Running /\ wk[w].pc = "begin"
  /\ LockFree
  /\ lock' = w
  /\ wk' = [wk EXCEPT ![w].pc = "counting", ![w].tmp = Snapshot]
  /\ UNCHANGED <<probe, max_workers, signals, under_lock, raised, fs, phase, settings, chunks, processed_counter, stats, log_entries,
                 budget, moved, at_start, last_op>>

\* the events emitted inside "with self.lock:" once the counter is k: the
\* progress, and the status text "if self.processed_counter % 10 == 0"
status_every == 10
emitted_with_progress(k) ==
  {"progress.emit"} \cup (IF k % status_every = 0 THEN {"status.emit"} ELSE {})

\* "self.processed_counter += 1" is written back, the progress is emitted, the
\* lock is released; the category is then decided, from the content of a
\* document in document mode and from the extension otherwise
CounterExit(w) ==
  /\ Running /\ wk[w].pc = "counting"
  /\ processed_counter' = wk[w].tmp.processed_counter + 1
  /\ signals' = [signals EXCEPT !.progress =
                   Append(@, run_percent[stats.total_files][wk[w].tmp.processed_counter + 1])]
  /\ under_lock' = under_lock \cup emitted_with_progress(wk[w].tmp.processed_counter + 1)
  /\ lock' = released
  /\ wk' = [wk EXCEPT ![w].pc = IF is_document(w) THEN "classified" ELSE "makedirs",
                      ![w].tmp = NoTmp, ![w].decision = classified(w)]
  /\ UNCHANGED <<probe, max_workers, raised, fs, phase, settings, chunks, stats, log_entries, budget, moved,
                 at_start, last_op>>

\* "if category: with self.lock:" of the document branch: the lock is taken
\* and the statistics are read
DocStatsEnter(w) ==
  /\ Running /\ wk[w].pc = "classified"
  /\ LockFree
  /\ lock' = w
  /\ wk' = [wk EXCEPT ![w].pc = "doc_stats", ![w].tmp = Snapshot]
  /\ UNCHANGED <<probe, max_workers, signals, under_lock, raised, fs, phase, settings, chunks,
                 processed_counter, stats, log_entries, budget, moved, at_start, last_op>>

\* stats["document_categories"][category] is counted, the lock released
DocStatsExit(w) ==
  /\ Running /\ wk[w].pc = "doc_stats"
  /\ stats' = [wk[w].tmp.stats EXCEPT !.document_categories =
                 Put(@, decision_of(w).category, Get(@, decision_of(w).category) + 1)]
  /\ lock' = released
  /\ wk' = [wk EXCEPT ![w].pc = "makedirs", ![w].tmp = NoTmp]
  /\ UNCHANGED <<probe, max_workers, signals, under_lock, raised, fs, phase, settings, chunks,
                 processed_counter, log_entries, budget, moved, at_start, last_op>>

\* os.makedirs(target_dir, exist_ok=True) returns; _move_file starts with
\* new_path = os.path.join(target_dir, filename) and counter = 1
Makedirs(w) ==
  /\ Running /\ wk[w].pc = "makedirs"
  /\ wk' = [wk EXCEPT ![w].pc = "exists", ![w].counter = 1,
                      ![w].new_path = join(target_dir(w), basename(filepath_of(w)))]
  /\ UNCHANGED <<probe, max_workers, signals, under_lock, raised, fs, phase, settings, chunks, lock, processed_counter, stats, log_entries,
                 budget, moved, at_start, last_op>>

\* os.makedirs raises (permission, a file in the way)
MakedirsRaises(w) ==
  /\ Running /\ wk[w].pc = "makedirs"
  /\ budget.faults > 0
  /\ budget' = [budget EXCEPT !.faults = @ - 1]
  /\ wk' = [wk EXCEPT ![w].pc = "except", ![w].err = "makedirs"]
  /\ raised' = Append(raised, [filepath |-> filepath_of(w), error |-> "makedirs"])
  /\ UNCHANGED <<probe, max_workers, signals, under_lock, fs, phase, settings, chunks, lock, processed_counter, stats, log_entries,
                 moved, at_start, last_op>>

\* one test of "while os.path.exists(new_path)": the next suffixed name when
\* the path is taken, else on to shutil.move
ExistsCheck(w) ==
  /\ Running /\ wk[w].pc = "exists"
  /\ wk' = IF Exists(fs, wk[w].new_path)
             THEN [wk EXCEPT ![w].counter = @ + 1,
                             ![w].new_path = join(target_dir(w),
                                suffixed(basename(filepath_of(w)), wk[w].counter))]
             ELSE [wk EXCEPT ![w].pc = "move"]
  /\ UNCHANGED <<probe, max_workers, signals, under_lock, raised, fs, phase, settings, chunks, lock, processed_counter, stats, log_entries,
                 budget, moved, at_start, last_op>>

\* shutil.move(old_path, new_path) succeeds
Move(w) ==
  /\ Running /\ wk[w].pc = "move"
  /\ Exists(fs, filepath_of(w))
  /\ fs' = MoveInFs(fs, filepath_of(w), wk[w].new_path)
  /\ moved' = Append(moved, [id |-> fs[filepath_of(w)].id, old_path |-> filepath_of(w),
                             new_path |-> wk[w].new_path,
                             overwrote |-> Exists(fs, wk[w].new_path)])
  /\ wk' = [wk EXCEPT ![w].pc = "moved"]
  /\ UNCHANGED <<probe, max_workers, signals, under_lock, raised, phase, settings, chunks, lock, processed_counter, stats, log_entries,
                 budget, at_start, last_op>>

\* _move_file swallowing the failure of shutil.move and returning None: the
\* file is passed over without an error
MoveRaises_swallowed(w) ==
  /\ Running /\ wk[w].pc = "move"
  /\ Exists(fs, filepath_of(w)) => budget.faults > 0
  /\ budget' = IF Exists(fs, filepath_of(w)) THEN [budget EXCEPT !.faults = @ - 1] ELSE budget
  /\ wk' = [wk EXCEPT ![w] = NextFile(w, @)]
  /\ raised' = Append(raised, [filepath |-> filepath_of(w), error |-> "move"])
  /\ UNCHANGED <<probe, max_workers, signals, under_lock, fs, phase, settings, chunks, lock, processed_counter, stats, log_entries,
                 moved, at_start, last_op>>

\* shutil.move raises: _move_file raises "Tasima hatasi", the file stays
MoveRaises(w) ==
  /\ Running /\ wk[w].pc = "move"
  /\ Exists(fs, filepath_of(w)) => budget.faults > 0
  /\ budget' = IF Exists(fs, filepath_of(w)) THEN [budget EXCEPT !.faults = @ - 1] ELSE budget
  /\ wk' = [wk EXCEPT ![w].pc = "except", ![w].err = "move"]
  /\ raised' = Append(raised, [filepath |-> filepath_of(w), error |-> "move"])
  /\ UNCHANGED <<probe, max_workers, signals, under_lock, fs, phase, settings, chunks, lock, processed_counter, stats, log_entries,
                 moved, at_start, last_op>>

\* "if new_path: with self.lock:" the lock is taken and the statistics and
\* the move list are read
StatsEnter(w) ==
  /\ Running /\ wk[w].pc = "moved"
  /\ LockFree
  /\ lock' = w
  /\ wk' = [wk EXCEPT ![w].pc = "stats", ![w].tmp = Snapshot]
  /\ UNCHANGED <<probe, max_workers, signals, under_lock, raised, fs, phase, settings, chunks, processed_counter, stats, log_entries,
                 budget, moved, at_start, last_op>>

\* a record that names the destination before _move_file suffixed it
MoveRecord_unsuffixed(w) ==
  [old_path |-> filepath_of(w), new_path |-> join(target_dir(w), basename(filepath_of(w))),
   category |-> target_dir(w), objects |-> decision_of(w).objects]

\* the move record appended to self.log_entries
MoveRecord(w) ==
  [old_path |-> filepath_of(w), new_path |-> wk[w].new_path,
   category |-> target_dir(w), objects |-> decision_of(w).objects]

\* a moved file counted as skipped as well
stats_after_move_skipped(st, category, size) ==
  [st EXCEPT !.processed_files = @ + 1,
             !.skipped_files = @ + 1,
             !.total_size = @ + size,
             !.category_distribution = Put(@, category, Get(@, category) + 1)]

\* the statistics written in the critical section after a move
stats_after_move(st, category, size) ==
  [st EXCEPT !.processed_files = @ + 1,
             !.total_size = @ + size,
             !.category_distribution = Put(@, category, Get(@, category) + 1)]

\* processed_files, total_size, category_distribution and the move record
\* are written, the lock is released; os.path.getsize(new_path) raises when the
\* file is gone, after processed_files was counted
StatsExit(w) ==
  /\ Running /\ wk[w].pc = "stats"
  /\ lock' = released
  /\ IF Exists(fs, wk[w].new_path)
       THEN /\ stats' = stats_after_move(wk[w].tmp.stats, target_dir(w),
                                         fs[wk[w].new_path].size)
            /\ log_entries' = Append(wk[w].tmp.log_entries, MoveRecord(w))
            /\ wk' = [wk EXCEPT ![w] = NextFile(w, @)]
            /\ raised' = raised
       ELSE /\ stats' = [wk[w].tmp.stats EXCEPT !.processed_files = @ + 1]
            /\ raised' = Append(raised, [filepath |-> filepath_of(w), error |-> "getsize"])
            /\ log_entries' = log_entries
            /\ wk' = [wk EXCEPT ![w].pc = "except", ![w].err = "getsize", ![w].tmp = NoTmp]
  /\ under_lock' = under_lock \cup {"os.path.getsize"}
  /\ UNCHANGED <<probe, max_workers, signals, fs, phase, settings, chunks, processed_counter, budget, moved,
                 at_start, last_op>>

\* "except Exception as e: ... with self.lock:" the lock is taken
ExceptEnter(w) ==
  /\ Running /\ wk[w].pc = "except"
  /\ LockFree
  /\ lock' = w
  /\ wk' = [wk EXCEPT ![w].pc = "except_locked", ![w].tmp = Snapshot]
  /\ UNCHANGED <<probe, max_workers, signals, under_lock, raised, fs, phase, settings, chunks, processed_counter, stats, log_entries,
                 budget, moved, at_start, last_op>>

\* the except block without the count of the skipped file
stats_after_error_uncounted(st, name, err) ==
  [st EXCEPT !.errors = Append(@, [filename |-> name, error |-> err])]

\* the statistics written by the except block
stats_after_error(st, name, err) ==
  [st EXCEPT !.errors = Append(@, [filename |-> name, error |-> err]),
             !.skipped_files = @ + 1]

\* the error message is appended, skipped_files counted, the lock released;
\* the loop goes on with the next file of the chunk
ExceptExit(w) ==
  /\ Running /\ wk[w].pc = "except_locked"
  /\ stats' = stats_after_error(wk[w].tmp.stats, basename(filepath_of(w)), wk[w].err)
  /\ lock' = released
  /\ wk' = [wk EXCEPT ![w] = NextFile(w, @)]
  /\ UNCHANGED <<probe, max_workers, signals, under_lock, raised, fs, phase, settings, chunks, processed_counter, log_entries, budget,
                 moved, at_start, last_op>>

(* --------------------------- the history file -------------------------- *)
history_limit == 5

\* the run record _save_log appends; stats.get("thread_count_used", 1) and
\* stats.get("processing_time", 0) of keys that are not set read as 1 and 0
new_log_entry(o, st, entries) ==
  [requested_threads |-> o.thread_count,
   actual_threads |-> IF st.thread_count_used = 0 THEN 1 ELSE st.thread_count_used,
   processing_time |-> st.processing_time,
   optimization_enabled |-> o.enable_optimization,
   total_files |-> st.total_files,
   processed_files |-> st.processed_files,
   movements |-> entries]

\* "if len(existing_logs) > 5: existing_logs = existing_logs[-5:]"
trimmed(logs) ==
  IF Len(logs) > history_limit
    THEN SubSeq(logs, Len(logs) - history_limit + 1, Len(logs))
    ELSE logs

\* a record is written also for a run without a move
_save_log_always(f, o, st, entries) ==
  LET existing_logs == IF Exists(f, log_path) THEN f[log_path].runs ELSE <<>>
  IN Put(f, log_path, LogContent(trimmed(Append(existing_logs, new_log_entry(o, st, entries)))))

\* OrganizerWorker._save_log: nothing without a move; else the list read from
\* the history file (empty when there is none) with the new record appended,
\* cut to the last 5, is written to log_path
_save_log(f, o, st, entries) ==
  IF entries = <<>> THEN f
  ELSE LET existing_logs == IF Exists(f, log_path) THEN f[log_path].runs ELSE <<>>
       IN Put(f, log_path, LogContent(trimmed(Append(existing_logs, new_log_entry(o, st, entries)))))

\* time.time() - self.start_time at the end of a run, on a clock that ticks
\* once when the run starts and once for every file: more than 0 for every run
elapsed(st) == st.total_files + 1

\* OrganizerWorker._calculate_statistics
_calculate_statistics(o, st) ==
  [st EXCEPT !.thread_count_used = o.thread_count, !.processing_time = elapsed(st)]

\* a pool that hands back control with the first future that completes
futures_completed_first == \E w \in DOMAIN wk : wk[w].pc = "done"

\* "for future in concurrent.futures.as_completed(futures)" and the end of
\* "with ThreadPoolExecutor": every submitted chunk has completed
futures_completed == \A w \in DOMAIN wk : wk[w].pc = "done"

\* the end of run() once every future has completed: the executor is shut
\* down, then _save_log, _calculate_statistics, finished(True, stats)
FinishRun ==
  /\ phase = "running"
  /\ futures_completed
  /\ fs' = _save_log(fs, settings, stats, log_entries)
  /\ stats' = _calculate_statistics(settings, stats)
  /\ phase' = "idle"
  /\ chunks' = <<>>
  /\ wk' = <<>>
  /\ last_op' = Op("run")
  /\ signals' = [signals EXCEPT !.stats_update = @ + 1, !.finished = Append(@, TRUE)]
  /\ UNCHANGED <<probe, max_workers, under_lock, raised, settings, lock, processed_counter, log_entries, budget, moved, at_start>>

\* the end of run() when _save_log cannot read or write the history file
\* (json.load or open raises): the exception is logged inside _save_log and
\* run() goes on to finished(True, stats)
SaveLogRaises ==
  /\ phase = "running"
  /\ futures_completed
  /\ log_entries # <<>>
  /\ budget.faults > 0
  /\ budget' = [budget EXCEPT !.faults = @ - 1]
  /\ stats' = _calculate_statistics(settings, stats)
  /\ phase' = "idle"
  /\ chunks' = <<>>
  /\ wk' = <<>>
  /\ last_op' = Op("run_unsaved")
  /\ signals' = [signals EXCEPT !.stats_update = @ + 1, !.finished = Append(@, TRUE)]
  /\ UNCHANGED <<probe, max_workers, under_lock, raised, fs, settings, lock, processed_counter, log_entries,
                 moved, at_start>>

\* the except block of run() after the worker pool failed: "Kritik hata" and
\* finished(False, stats), with no _save_log and no _calculate_statistics
AbortRun ==
  /\ phase = "aborting"
  /\ futures_completed
  /\ phase' = "idle"
  /\ chunks' = <<>>
  /\ wk' = <<>>
  /\ last_op' = Op("aborted")
  /\ signals' = [signals EXCEPT !.error = @ + 1, !.finished = Append(@, FALSE)]
  /\ UNCHANGED <<probe, max_workers, under_lock, raised, fs, settings, lock, processed_counter, stats,
                 log_entries, budget, moved, at_start>>

(* -------------------------------- undo --------------------------------- *)
\* the loop "for move in movements" of undo_action from record k on: a record
\* whose new_path exists is moved back with shutil.move (replacing a file at
\* old_path) and counted, unless makedirs or the move raises (k in fail);
\* attempted: the records whose new_path existed at their turn, moved_back:
\* those for which shutil.move returned
\* the loop leaving at the first record whose restore raises
RECURSIVE undo_moves_stop(_, _, _, _)
undo_moves_stop(f, movements, k, fail) ==
  IF k > Len(movements)
    THEN [fs |-> f, success_count |-> 0, failed |-> 0, attempted |-> {}, moved_back |-> {}]
  ELSE LET move == movements[k]
           attempt == Exists(f, move.new_path)
           ok == attempt /\ k \notin fail
           rest == undo_moves_stop(IF ok THEN MoveInFs(f, move.new_path, move.old_path) ELSE f,
                                   movements,
                                   IF attempt /\ ~ok THEN Len(movements) + 1 ELSE k + 1, fail)
       IN [fs |-> rest.fs,
           success_count |-> rest.success_count + (IF ok THEN 1 ELSE 0),
           failed |-> rest.failed + (IF attempt /\ ~ok THEN 1 ELSE 0),
           attempted |-> rest.attempted \cup (IF attempt THEN {k} ELSE {}),
           moved_back |-> rest.moved_back \cup (IF ok THEN {k} ELSE {})]

RECURSIVE undo_moves(_, _, _, _)
undo_moves(f, movements, k, fail) ==
  IF k > Len(movements)
    THEN [fs |-> f, success_count |-> 0, failed |-> 0, attempted |-> {}, moved_back |-> {}]
  ELSE LET move == movements[k]
           attempt == Exists(f, move.new_path)
           ok == attempt /\ k \notin fail
           rest == undo_moves(IF ok THEN MoveInFs(f, move.new_path, move.old_path) ELSE f,
                              movements, k + 1, fail)
       IN [fs |-> rest.fs,
           success_count |-> rest.success_count + (IF ok THEN 1 ELSE 0),
           failed |-> rest.failed + (IF attempt /\ ~ok THEN 1 ELSE 0),
           attempted |-> rest.attempted \cup (IF attempt THEN {k} ELSE {}),
           moved_back |-> rest.moved_back \cup (IF ok THEN {k} ELSE {})]

\* the history that is written back with every record still in it
history_after_pop_kept(history) == history

\* "last_operation = history.pop()": what is left in history
history_after_pop(history) == SubSeq(history, 1, Len(history) - 1)

\* DosyaDuzenleyici.undo_action for the moves that fail in `fail`
undo_action(f, fail) ==
  IF ~Exists(f, log_path) \/ f[log_path].runs = <<>>
    THEN [fs |-> f, success_count |-> 0, failed |-> 0, attempted |-> {}, moved_back |-> {}]
  ELSE LET history == f[log_path].runs
           last_operation == history[Len(history)]
           popped == history_after_pop(history)
           r == undo_moves(f, last_operation.movements, 1, fail)
       IN [fs |-> IF popped # <<>>
                    THEN Put(r.fs, log_path, LogContent(popped))
                    ELSE [p \in (DOMAIN r.fs) \ {log_path} |-> r.fs[p]],
           success_count |-> r.success_count,
           failed |-> r.failed,
           attempted |-> r.attempted,
           moved_back |-> r.moved_back]

\* the records of the run undo_action would reverse
last_movements(f) ==
  IF ~Exists(f, log_path) \/ f[log_path].runs = <<>> THEN <<>>
  ELSE f[log_path].runs[Len(f[log_path].runs)].movements

\* check_log_file: btn_undo is enabled when the history file lists a run
undo_enabled(f) == Exists(f, log_path) /\ f[log_path].runs # <<>>

\* the user presses the undo button while no run is in flight
Undo ==
  /\ phase = "idle"
  /\ undo_enabled(fs)
  /\ \E fail \in SUBSET (DOMAIN last_movements(fs)) :
       /\ Cardinality(fail) <= budget.faults
       /\ \A k \in fail : Exists(fs, last_movements(fs)[k].new_path)
       /\ LET r == undo_action(fs, fail)
          IN /\ fs' = r.fs
             /\ last_op' = [op |-> IF last_op.op = "run" THEN "undo_after_run" ELSE "undo",
                            restored |-> r.success_count, failed |-> r.failed,
                            attempted |-> r.attempted, moved_back |-> r.moved_back]
       /\ budget' = [budget EXCEPT !.faults = @ - Cardinality(fail)]
  /\ UNCHANGED <<probe, max_workers, signals, under_lock, raised, phase, settings, chunks, wk, lock, processed_counter, stats, log_entries,
                 moved, at_start>>

\* undo_action called while the history file is gone or lists no run (the
\* button still enabled from an earlier check_log_file): it returns at once
UndoNothing ==
  /\ phase = "idle"
  /\ ~undo_enabled(fs)
  /\ LET r == undo_action(fs, {})
     IN /\ fs' = r.fs
        /\ last_op' = [op |-> "undo_nothing", restored |-> r.success_count,
                       failed |-> r.failed, attempted |-> r.attempted,
                       moved_back |-> r.moved_back]
  /\ UNCHANGED <<probe, max_workers, signals, under_lock, raised, phase, settings, chunks, wk, lock,
                 processed_counter, stats, log_entries, budget, moved, at_start>>

(* ----------------------------- environment ---------------------------- *)
\* the user puts a new file "a.txt" into source_folder between two runs: the
\* directory content that the next os.listdir / os.walk of _collect_files reads
arrival_path == Path(Root, "a", <<>>, ".txt")
NewFile ==
  /\ phase = "idle"
  /\ budget.arrivals > 0
  /\ ~Exists(fs, arrival_path)
  /\ fs' = Put(fs, arrival_path, Content(10 + budget.arrivals, 1))
  /\ budget' = [budget EXCEPT !.arrivals = @ - 1]
  /\ last_op' = Op("arrival")
  /\ UNCHANGED <<probe, max_workers, signals, under_lock, raised, phase, settings, chunks, wk, lock, processed_counter, stats,
                 log_entries, moved, at_start>>

(* ----------------------------- specification --------------------------- *)
\* files that arrive in one behaviour of Spec and of SpecHist
MaxArrivals == 1
HistArrivals == 5
\* faults (raised I/O calls) injected in one behaviour of Spec and of SpecHist
MaxFaults == 2
HistFaults == 4

\* the files a directory tree can hold before the first run
Candidates ==
  { [path |-> Path(Root, "a", <<>>, ".txt"), content |-> Content(1, 1)],
    [path |-> Path(<<"Z">>, "a", <<>>, ".txt"), content |-> Content(2, 2)],
    [path |-> Path(<<"Belgeler">>, "a", <<>>, ".txt"), content |-> Content(3, 3)],
    [path |-> Path(Root, "b", <<>>, ".jpg"), content |-> Content(4, 4)],
    [path |-> Path(Root, "big", <<>>, ".txt"), content |-> Content(5, max_file_size + 1)],
    [path |-> Path(Root, "Thumbs", <<>>, ".db"), content |-> Content(6, 6)] }

TreeOf(layout) ==
  [p \in {c.path : c \in layout} |-> (CHOOSE c \in layout : c.path = p).content]

Settings(threads) ==
  [include_subfolders : BOOLEAN, thread_count : 1..threads, enable_optimization : BOOLEAN,
   document_ai_modu : {FALSE}, initialized : {FALSE}]

InitWith(layouts, choices, b) ==
  /\ \E layout \in layouts : fs = TreeOf(layout)
  /\ settings \in choices
  /\ phase = "idle"
  /\ chunks = <<>>
  /\ wk = <<>>
  /\ lock = 0
  /\ processed_counter = 0
  /\ stats = ZeroStats
  /\ log_entries = <<>>
  /\ budget = b
  /\ signals = NoSignals
  /\ max_workers = 0
  /\ under_lock = {}
  /\ moved = <<>>
  /\ raised = <<>>
  /\ probe = NoProbe
  /\ at_start = fs
  /\ last_op = Op("none")

Init ==
  InitWith({l \in SUBSET Candidates : Cardinality(l) >= 1 /\ Cardinality(l) <= MaxFiles},
           Settings(MaxThreads),
           [runs |-> MaxRuns, faults |-> MaxFaults, arrivals |-> MaxArrivals])

Next ==
  \/ StartRun
  \/ CollectRaises
  \/ PoolRaises
  \/ \E w \in DOMAIN wk : CounterEnter(w)
  \/ \E w \in DOMAIN wk : CounterExit(w)
  \/ \E w \in DOMAIN wk : Makedirs(w)
  \/ \E w \in DOMAIN wk : MakedirsRaises(w)
  \/ \E w \in DOMAIN wk : ExistsCheck(w)
  \/ \E w \in DOMAIN wk : Move(w)
  \/ \E w \in DOMAIN wk : MoveRaises(w)
  \/ \E w \in DOMAIN wk : StatsEnter(w)
  \/ \E w \in DOMAIN wk : StatsExit(w)
  \/ \E w \in DOMAIN wk : ExceptEnter(w)
  \/ \E w \in DOMAIN wk : ExceptExit(w)
  \/ FinishRun
  \/ SaveLogRaises
  \/ AbortRun
  \/ Undo
  \/ UndoNothing
  \/ NewFile

Spec == Init /\ [][Next]_vars

\* one directory with one file, into which new files arrive and which is
\* organized again and again, without subfolder scanning, with one requested
\* thread and the optimisation switched off
InitHist ==
  InitWith({ {c} : c \in {c \in Candidates : c.content.id = 1} },
           {[include_subfolders |-> FALSE, thread_count |-> 1, enable_optimization |-> FALSE,
             document_ai_modu |-> FALSE, initialized |-> FALSE]},
           [runs |-> HistRuns, faults |-> HistFaults, arrivals |-> HistArrivals])

SpecHist == InitHist /\ [][Next]_vars

\* the steps of worker thread w
WorkerNext(w) ==
  \/ CounterEnter(w) \/ CounterExit(w)
  \/ Makedirs(w) \/ MakedirsRaises(w)
  \/ ExistsCheck(w)
  \/ Move(w) \/ MoveRaises(w)
  \/ StatsEnter(w) \/ StatsExit(w)
  \/ ExceptEnter(w) \/ ExceptExit(w)

\* the end of run() in the main thread, whichever way it ends
RunEnds == FinishRun \/ SaveLogRaises \/ AbortRun

\* the scheduling of the threads: a pool thread that can take a step is
\* scheduled at some time, and so is the thread of run() once the futures have
\* completed; nothing is assumed of the order in which waiting threads get the
\* lock
Fairness ==
  /\ \A w \in 1..MaxThreads : WF_vars(w \in DOMAIN wk /\ WorkerNext(w))
  /\ WF_vars(RunEnds)

\* faults injected in one behaviour of SpecLive
LiveFaults == 1

\* one run, from its start to its terminal event, under that scheduling
InitLive ==
  InitWith({l \in SUBSET Candidates : Cardinality(l) >= 1 /\ Cardinality(l) <= MaxFiles},
           Settings(MaxThreads),
           [runs |-> MaxRuns, faults |-> LiveFaults, arrivals |-> 0])

NextLive ==
  \/ StartRun
  \/ PoolRaises
  \/ \E w \in DOMAIN wk : CounterEnter(w)
  \/ \E w \in DOMAIN wk : CounterExit(w)
  \/ \E w \in DOMAIN wk : Makedirs(w)
  \/ \E w \in DOMAIN wk : MakedirsRaises(w)
  \/ \E w \in DOMAIN wk : ExistsCheck(w)
  \/ \E w \in DOMAIN wk : Move(w)
  \/ \E w \in DOMAIN wk : MoveRaises(w)
  \/ \E w \in DOMAIN wk : StatsEnter(w)
  \/ \E w \in DOMAIN wk : StatsExit(w)
  \/ \E w \in DOMAIN wk : ExceptEnter(w)
  \/ \E w \in DOMAIN wk : ExceptExit(w)
  \/ FinishRun
  \/ SaveLogRaises
  \/ AbortRun

SpecLive == InitLive /\ [][NextLive]_vars /\ Fairness

\* document mode: files, faults and arrivals of one behaviour of SpecDoc
DocMaxFiles == 2
DocFaults == 1
DocArrivals == 1

Word(raw) == CHOOSE p \in Vocabulary : p.raw = raw

\* the texts of the documents: one keyword category (Finans) in 24 characters,
\* the same keywords in 13 characters, four categories, no keyword in a text
\* of more than 100 characters, a text of more than 100 characters in which
\* keywords and pipeline agree on two of five categories, one in which they
\* agree on one of two, and a file
\* extract_text gets nothing from
DocTexts ==
  { <<Word("Fatura,"), Word("vergi"), Word("odeme-plan")>>,
    <<Word("Fatura,"), Word("vergi"), Word("rapor"), Word("rapor"), Word("kedi"),
      Word("aile"), Word("aile"), Word("lorem-ipsum-(120)")>>,
    <<Word("Fatura,"), Word("vergi"), Word("kedi"), Word("lorem-ipsum-(120)")>>,
    <<Word("Fatura,"), Word("vergi")>>,
    <<Word("rapor"), Word("rapor"), Word("odeme-plan"), Word("Fatura,")>>,
    <<Word("kedi"), Word("lorem-ipsum-(120)")>>,
    <<>> }

DocLayouts ==
  { l \in SUBSET ({[path |-> Path(Root, "a", <<>>, ".pdf"), content |-> Document(1, 1, t)] :
                      t \in DocTexts}
                   \cup {[path |-> Path(Root, "b", <<>>, ".txt"), content |-> Document(2, 2, t)] :
                      t \in DocTexts}
                   \cup {[path |-> Path(Root, "c", <<>>, ".jpg"), content |-> Content(3, 3)]}) :
      /\ Cardinality(l) >= 1 /\ Cardinality(l) <= DocMaxFiles
      /\ \A x, y \in l : x.path = y.path => x = y }

InitDoc ==
  InitWith(DocLayouts,
           [include_subfolders : {FALSE}, thread_count : 1..MaxThreads,
            enable_optimization : {FALSE}, document_ai_modu : {TRUE}, initialized : BOOLEAN],
           [runs |-> MaxRuns, faults |-> DocFaults, arrivals |-> DocArrivals])

NextDoc ==
  \/ Next
  \/ \E w \in DOMAIN wk : DocStatsEnter(w)
  \/ \E w \in DOMAIN wk : DocStatsExit(w)

SpecDoc == InitDoc /\ [][NextDoc]_vars

(* --------------------- the functions applied on their own -------------- *)
\* no directory and no run: the state of the worker model while a function
\* is applied on its own
Quiet ==
  /\ fs = EmptyMap
  /\ settings = [include_subfolders |-> FALSE, thread_count |-> 1, enable_optimization |-> TRUE,
                 document_ai_modu |-> FALSE, initialized |-> FALSE]
  /\ phase = "idle"
  /\ chunks = <<>>
  /\ wk = <<>>
  /\ lock = 0
  /\ processed_counter = 0
  /\ stats = ZeroStats
  /\ log_entries = <<>>
  /\ budget = [runs |-> 0, faults |-> 0, arrivals |-> 0]
  /\ signals = NoSignals
  /\ max_workers = 0
  /\ under_lock = {}
  /\ moved = <<>>
  /\ raised = <<>>
  /\ at_start = fs
  /\ last_op = Op("none")

QuietVars == <<fs, phase, settings, chunks, wk, lock, processed_counter, stats,
               log_entries, budget, signals, max_workers, under_lock, raised, moved,
               at_start, last_op>>

\* largest file list and worker count the partition is applied to
ChunkMaxTotal == 9
ChunkMaxWorkers == 9

\* a list of `total` files, the numbers 1..total
FileList(total) == [k \in 1..total |-> k]

InitChunk ==
  /\ Quiet
  /\ \E total \in 1..ChunkMaxTotal, w \in 1..ChunkMaxWorkers :
       probe = [kind |-> "chunks", done |-> FALSE, files |-> FileList(total),
                thread_count |-> w, submitted |-> <<>>]

\* the loop of _process_files_multithreaded that submits the chunks
SubmitChunks ==
  /\ probe.kind = "chunks" /\ ~probe.done
  /\ probe' = [probe EXCEPT !.done = TRUE,
                            !.submitted = submitted(probe.files, probe.thread_count, 0)]
  /\ UNCHANGED QuietVars

NextChunk == SubmitChunks

SpecChunk == InitChunk /\ [][NextChunk]_vars

\* largest file count and requested thread count the governor is applied to
GovMaxFiles == 40
GovMaxRequested == 33

GovTelemetry ==
  [psutil : BOOLEAN, raises : BOOLEAN, cpu_count : {0, 1, 4, 5, 8, 9, 16}, cpu_percent : {70, 71},
   memory_percent : {80, 81}, memory_mib : {4095, 4096}]

InitGov ==
  /\ Quiet
  /\ \E opt \in BOOLEAN, t \in GovTelemetry, n \in 0..GovMaxFiles, r \in 1..GovMaxRequested :
       probe = [kind |-> "governor", done |-> FALSE, enable_optimization |-> opt,
                t |-> t, total_files |-> n, requested_threads |-> r, result |-> 0]

\* one call of _optimize_thread_count
Optimize ==
  /\ probe.kind = "governor" /\ ~probe.done
  /\ probe' = [probe EXCEPT !.done = TRUE,
                            !.result = _optimize_thread_count(probe.enable_optimization,
                                         probe.t, probe.total_files, probe.requested_threads)]
  /\ UNCHANGED QuietVars

NextGov == Optimize

SpecGov == InitGov /\ [][NextGov]_vars

\* largest number of files the progress computation is applied to
ProgressMaxTotal == 50

InitProgress ==
  /\ Quiet
  /\ \E total \in 1..ProgressMaxTotal :
       probe = [kind |-> "progress", total_files |-> total, processed_counter |-> 0,
                emitted |-> <<>>]

\* the progress block of _process_file_chunk for the next file of a run of
\* total_files files: the block is one critical section, so the workers pass
\* through it one after the other
EmitProgress ==
  /\ probe.kind = "progress" /\ probe.processed_counter < probe.total_files
  /\ probe' = [probe EXCEPT
                 !.processed_counter = @ + 1,
                 !.emitted = Append(@, progress_percent(probe.processed_counter + 1,
                                                        probe.total_files))]
  /\ UNCHANGED QuietVars

NextProgress == EmitProgress

SpecProgress == InitProgress /\ [][NextProgress]_vars

\* longest text, in pieces, the keyword analysis is applied to
KeywordMaxWords == 3

RECURSIVE Texts(_)
\* the texts of at most n pieces
Texts(n) ==
  IF n = 0 THEN {<<>>}
  ELSE Texts(n - 1) \cup {Append(t, p) : t \in {u \in Texts(n - 1) : Len(u) = n - 1},
                                          p \in Vocabulary}

InitKeyword ==
  /\ Quiet
  /\ \E text \in Texts(KeywordMaxWords) :
       probe = [kind |-> "keywords", done |-> FALSE, text |-> text, detected |-> <<>>]

\* one call of DocumentAnalyzer._keyword_analysis
AnalyzeKeywords ==
  /\ probe.kind = "keywords" /\ ~probe.done
  /\ probe' = [probe EXCEPT !.done = TRUE, !.detected = _keyword_analysis(probe.text)]
  /\ UNCHANGED QuietVars

NextKeyword == AnalyzeKeywords

SpecKeyword == InitKeyword /\ [][NextKeyword]_vars

\* longest text, in pieces, analyze_content is applied to
AnalyzeMaxWords == 4

InitAnalyze ==
  /\ Quiet
  /\ \E text \in Texts(AnalyzeMaxWords), initialized \in BOOLEAN :
       probe = [kind |-> "content", done |-> FALSE, text |-> text,
                initialized |-> initialized,
                result |-> [category |-> "", related |-> <<>>]]

\* one call of DocumentAnalyzer.analyze_content
AnalyzeContent ==
  /\ probe.kind = "content" /\ ~probe.done
  /\ probe' = [probe EXCEPT !.done = TRUE,
                            !.result = analyze_content(probe.text, probe.initialized)]
  /\ UNCHANGED QuietVars

NextAnalyze == AnalyzeContent

SpecAnalyze == InitAnalyze /\ [][NextAnalyze]_vars

\* the texts and the pipeline outcomes analyze_content is applied to: texts of
\* 24, 100, 101 and more characters with and without keywords, results of two
\* labels scored just below, at and above 0.3, and a call that raises
ScorerScores == {29, 30, 31, 90}

RECURSIVE Repeat(_, _)
Repeat(piece, n) == IF n = 0 THEN <<>> ELSE <<piece>> \o Repeat(piece, n - 1)

ScorerTexts ==
  { <<Word("Fatura,"), Word("vergi"), Word("odeme-plan")>>,
    Repeat(Word("odeme-plan"), 8) \o <<Word("Fatura,"), Word("kedi")>>,
    Repeat(Word("odeme-plan"), 8) \o <<Word("Fatura,"), Word("vergi")>>,
    Repeat(Word("kedi"), 20),
    Repeat(Word("kedi"), 21),
    <<Word("rapor"), Word("rapor"), Word("lorem-ipsum-(120)")>>,
    <<Word("kedi"), Word("lorem-ipsum-(120)")>> }

Outcomes ==
  {Raises} \cup
  { Returned(<<Scored(a, x), Scored(b, y)>>) :
      a \in {"Finans", "Kisisel"}, b \in {"Is", "Hukuk"},
      <<x, y>> \in {xy \in ScorerScores \X ScorerScores : xy[1] >= xy[2]} }

InitScorer ==
  /\ Quiet
  /\ \E text \in ScorerTexts, initialized \in BOOLEAN, outcome \in Outcomes :
       probe = [kind |-> "scorer", done |-> FALSE, text |-> text,
                initialized |-> initialized, outcome |-> outcome,
                result |-> [category |-> "", related |-> <<>>]]

\* one call of DocumentAnalyzer.analyze_content in which the pipeline, if it
\* is called, answers with probe.outcome
ScoreContent ==
  /\ probe.kind = "scorer" /\ ~probe.done
  /\ probe' = [probe EXCEPT !.done = TRUE,
                            !.result = analyze_content_on(probe.text, probe.initialized,
                                                          probe.outcome)]
  /\ UNCHANGED QuietVars

NextScorer == ScoreContent

SpecScorer == InitScorer /\ [][NextScorer]_vars

(* ------------------------------- summary ------------------------------- *)
\* A text to summarise is a sequence of sentences, each closed by one "." and
\* separated from the next by one blank; a sentence is the number of its
\* characters once stripped. re.split(r'[.!?]+', text) gives the sentences.
max_length == 150
min_sentence_length == 10
max_sentences == 3

RECURSIVE raw_length(_)
\* len(text)
raw_length(sentences) ==
  IF sentences = <<>> THEN 0
  ELSE Head(sentences) + 1 + (IF Len(sentences) > 1 THEN 1 ELSE 0) + raw_length(Tail(sentences))

\* "valid_sentences = [s.strip() for s in sentences if len(s.strip()) > 10]",
\* as the places of the valid sentences in the text
RECURSIVE valid_from(_, _)
valid_from(k, sentences) ==
  IF k > Len(sentences) THEN <<>>
  ELSE (IF sentences[k] > min_sentence_length THEN <<k>> ELSE <<>>)
         \o valid_from(k + 1, sentences)
valid_sentences(sentences) == valid_from(1, sentences)

\* "for sentence in valid_sentences[:3]": the sentences appended to summary,
\* each with ". ", until one does not fit; acc is what was appended so far and
\* chars is len(summary)
RECURSIVE appended(_, _, _, _)
appended(sentences, todo, acc, chars) ==
  IF todo = <<>> THEN [sentences |-> acc, chars |-> chars]
  ELSE IF chars + sentences[Head(todo)] < max_length
    THEN appended(sentences, Tail(todo), Append(acc, Head(todo)),
                  chars + sentences[Head(todo)] + 2)
  ELSE [sentences |-> acc, chars |-> chars]

\* DocumentAnalyzer._create_summary: the places of the sentences the summary
\* is made of, the length of a raw prefix when it is made of one, the number
\* of its characters and whether "..." was appended
_create_summary(sentences) ==
  IF sentences = <<>>
    THEN [sentences |-> <<>>, prefix |-> 0, chars |-> 0, ellipsis |-> FALSE]
  ELSE LET valid == valid_sentences(sentences)
           loop == appended(sentences, SubSeq(valid, 1, Min(Len(valid), max_sentences)),
                            <<>>, 0)
           stripped == IF loop.chars > 0 THEN loop.chars - 1 ELSE 0
       IN IF valid = <<>>
            THEN IF raw_length(sentences) > max_length
                   THEN [sentences |-> <<>>, prefix |-> max_length,
                         chars |-> max_length + 3, ellipsis |-> TRUE]
                   ELSE [sentences |-> <<>>, prefix |-> raw_length(sentences),
                         chars |-> raw_length(sentences), ellipsis |-> FALSE]
          ELSE IF stripped > max_length
            THEN [sentences |-> loop.sentences, prefix |-> 0,
                  chars |-> max_length + 3, ellipsis |-> TRUE]
          ELSE [sentences |-> loop.sentences, prefix |-> 0,
                chars |-> stripped, ellipsis |-> FALSE]

\* most sentences of a text, and the lengths of a sentence
SummaryMaxSentences == 4
SentenceLengths == {5, 10, 11, 60, 148, 149, 150, 200}

InitSummary ==
  /\ Quiet
  /\ \E sentences \in UNION {[1..n -> SentenceLengths] : n \in 0..SummaryMaxSentences} :
       probe = [kind |-> "summary", done |-> FALSE, text |-> sentences,
                summary |-> [sentences |-> <<>>, prefix |-> 0, chars |-> 0,
                             ellipsis |-> FALSE]]

\* one call of DocumentAnalyzer._create_summary
CreateSummary ==
  /\ probe.kind = "summary" /\ ~probe.done
  /\ probe' = [probe EXCEPT !.done = TRUE, !.summary = _create_summary(probe.text)]
  /\ UNCHANGED QuietVars

NextSummary == CreateSummary

SpecSummary == InitSummary /\ [][NextSummary]_vars

(* --------------------------- image captions ---------------------------- *)
\* object_keywords of _detect_objects, in the order of the list, with the
\* keywords the model's captions touch; every keyword is one word
object_keywords ==
  << Token("car", 3), Token("truck", 5), Token("bicycle", 7), Token("table", 5),
     Token("tree", 4), Token("vegetable", 9), Token("dog", 3), Token("street", 6) >>

\* A caption is a sequence of lower-case words. A word is written with its
\* length and with the keywords of more than 3 characters that are a
\* substring of it.
CaptionWord(w, len, has) == [w |-> w, len |-> len, has |-> has]
CaptionWords ==
  { CaptionWord("a", 1, {}),
    CaptionWord("dog", 3, {}),
    CaptionWord("some", 4, {}),
    CaptionWord("kids", 4, {}),
    CaptionWord("playing", 7, {}),
    CaptionWord("together", 8, {}),
    CaptionWord("truck", 5, {"truck"}),
    CaptionWord("trucks", 6, {"truck"}),
    CaptionWord("bicycle", 7, {"bicycle"}),
    CaptionWord("street", 6, {"street", "tree"}),
    CaptionWord("vegetable", 9, {"vegetable", "table"}) }

min_object_word == 3
\* match_score of a keyword, in hundredths: 1.0 for a caption word equal to
\* it, 0.5 for a caption word of more than 3 characters that contains it,
\* nothing for a keyword of at most 3 characters
match_score(keyword, caption) ==
  IF keyword.len > min_object_word
    THEN IF \E i \in DOMAIN caption : caption[i].w = keyword.w THEN 100
         ELSE IF \E i \in DOMAIN caption :
                   caption[i].len > min_object_word /\ keyword.w \in caption[i].has THEN 50
         ELSE 0
    ELSE 0

\* "objects[:max_objects]"
first_objects(objects, max_objects) == SubSeq(objects, 1, Min(Len(objects), max_objects))

\* OrganizerWorker._detect_objects: the keywords whose match_ratio (the score
\* over the one word of the keyword) reaches object_threshold / 100, in the
\* order of the list, cut to max_objects
RECURSIVE objects_from(_, _, _)
objects_from(k, caption, threshold_percent) ==
  IF k > Len(object_keywords) THEN <<>>
  ELSE (IF match_score(object_keywords[k], caption) >= threshold_percent
          THEN <<object_keywords[k].w>> ELSE <<>>)
         \o objects_from(k + 1, caption, threshold_percent)
_detect_objects(caption, threshold_percent, max_objects) ==
  first_objects(objects_from(1, caption, threshold_percent), max_objects)

max_category_chars == 20
\* OrganizerWorker._determine_ai_category. A category name is its parts, joined
\* by "_" and capitalized, and the number of characters kept of it.
long_word(cw) == cw.len > min_object_word
_determine_ai_category(objects, caption) ==
  IF objects = <<>>
    THEN LET words == SelectSeq(caption, long_word)
             taken == SubSeq(words, 1, Min(Len(words), 2))
             chars == IF Len(taken) = 2 THEN taken[1].len + 1 + taken[2].len
                      ELSE taken[1].len
         IN IF words # <<>>
              THEN [parts |-> [i \in DOMAIN taken |-> taken[i].w],
                    chars |-> Min(chars, max_category_chars)]
              ELSE [parts |-> <<"genel">>, chars |-> 5]
  ELSE IF Len(objects) > 1
    THEN [parts |-> <<objects[1], objects[2]>>,
          chars |-> Len(objects[1]) + 1 + Len(objects[2])]
  ELSE [parts |-> <<objects[1]>>, chars |-> Len(objects[1])]

\* longest caption, in words, and the settings the detection is applied with
ImageMaxWords == 3
Captions ==
  UNION {[1..n -> CaptionWords] : n \in 0..ImageMaxWords}
    \cup {<<CaptionWord("some", 4, {}), CaptionWord("kids", 4, {}),
            CaptionWord("playing", 7, {}), CaptionWord("together", 8, {})>>}

InitImage ==
  /\ Quiet
  /\ \E caption \in Captions, threshold_percent \in {30, 50, 51, 100}, max_objects \in {1, 3} :
       probe = [kind |-> "image", done |-> FALSE, caption |-> caption,
                threshold_percent |-> threshold_percent, max_objects |-> max_objects,
                objects |-> <<>>, category |-> [parts |-> <<>>, chars |-> 0]]

\* OrganizerWorker._ai_analyze after the pipeline returned the caption:
\* _detect_objects, then _determine_ai_category
AiAnalyze ==
  /\ probe.kind = "image" /\ ~probe.done
  /\ LET detected_objects == _detect_objects(probe.caption, probe.threshold_percent,
                                              probe.max_objects)
     IN probe' = [probe EXCEPT !.done = TRUE, !.objects = detected_objects,
                               !.category = _determine_ai_category(detected_objects,
                                                                   probe.caption)]
  /\ UNCHANGED QuietVars

NextImage == AiAnalyze

SpecImage == InitImage /\ [][NextImage]_vars

(* ----------------------------- main window ---------------------------- *)
\* The handlers of DosyaDuzenleyici that enable and disable the buttons, run in
\* the GUI thread, and the OrganizerWorker threads they start. The window is
\* probe: selected_folder ("" before a folder is chosen), the enabled flags of
\* btn_start, btn_ai, btn_document_ai and btn_undo, spin_threads, the number
\* of runs listed in the history file of each folder, and for every worker
\* thread started its folder and whether it is running, has emitted finished
\* (the queued signal not yet delivered) or was handled by operation_finished,
\* and the number of runs undone so far.

\* runs started in one behaviour, and runs a history file lists at the start
GuiMaxRuns == 3
GuiMaxLogs == 1
GuiFolders == {"A", "B"}
\* psutil.cpu_count(logical=True) of the machine the window runs on
gui_cpu_count == 4

InitGui ==
  /\ Quiet
  /\ \E logs \in [GuiFolders -> 0..GuiMaxLogs], spin \in {8, 64} :
       probe = [kind |-> "gui", selected_folder |-> "",
                btn_start |-> FALSE, btn_ai |-> FALSE, btn_document_ai |-> FALSE,
                btn_undo |-> FALSE, spin_threads |-> spin, logs |-> logs,
                workers |-> <<>>, undone |-> 0]

\* DosyaDuzenleyici.check_log_file: btn_undo is enabled when the history file
\* of the selected folder lists a run
check_log_file(g) ==
  IF g.selected_folder = "" THEN g
  ELSE [g EXCEPT !.btn_undo = g.logs[g.selected_folder] > 0]

\* DosyaDuzenleyici.select_folder: the dialog returns a folder, or "" when it
\* is cancelled
SelectFolder ==
  /\ probe.kind = "gui"
  /\ \E folder \in GuiFolders \cup {""} :
       probe' = IF folder = "" THEN probe
                ELSE check_log_file([probe EXCEPT !.selected_folder = folder,
                                                  !.btn_start = TRUE, !.btn_ai = TRUE,
                                                  !.btn_document_ai = TRUE])
  /\ UNCHANGED QuietVars

\* DosyaDuzenleyici.start_organization, called by a click on one of the three
\* start buttons that is enabled: the warning for more than 16 threads on
\* which the user may turn back, then a new OrganizerWorker is set up, the
\* start and undo buttons are disabled and the thread is started
StartOrganization ==
  /\ probe.kind = "gui"
  /\ probe.btn_start \/ probe.btn_ai \/ probe.btn_document_ai
  /\ Len(probe.workers) < GuiMaxRuns
  /\ \E reply \in {"Yes", "No"} :
       probe' =
         IF probe.selected_folder = "" THEN probe
         ELSE IF /\ probe.spin_threads > 16 /\ probe.spin_threads > gui_cpu_count * 4
                 /\ reply = "No"
           THEN [probe EXCEPT !.spin_threads = Min(16, gui_cpu_count * 2)]
         ELSE [probe EXCEPT !.btn_start = FALSE, !.btn_ai = FALSE,
                            !.btn_document_ai = FALSE, !.btn_undo = FALSE,
                            !.workers = Append(@, [folder |-> probe.selected_folder,
                                                   state |-> "running"])]
  /\ UNCHANGED QuietVars

\* the end of OrganizerWorker.run in a worker thread: the history file of its
\* folder has a record more when files were moved, and finished is emitted
WorkerFinishes ==
  /\ probe.kind = "gui"
  /\ \E i \in DOMAIN probe.workers, saved \in BOOLEAN :
       /\ probe.workers[i].state = "running"
       /\ probe' = [probe EXCEPT
            !.workers[i].state = "emitted",
            !.logs[probe.workers[i].folder] = IF saved THEN Min(@ + 1, history_limit) ELSE @]
  /\ UNCHANGED QuietVars

\* DosyaDuzenleyici.operation_finished, the slot of the finished signal of a
\* worker: the start buttons are enabled and check_log_file sets btn_undo
OperationFinished ==
  /\ probe.kind = "gui"
  /\ \E i \in DOMAIN probe.workers :
       /\ probe.workers[i].state = "emitted"
       /\ probe' = check_log_file([probe EXCEPT !.workers[i].state = "handled",
                                                !.btn_start = TRUE, !.btn_ai = TRUE,
                                                !.btn_document_ai = TRUE])
  /\ UNCHANGED QuietVars

\* DosyaDuzenleyici.undo_action, called by a click on btn_undo while it is
\* enabled: nothing without a history, else the last record is taken off the
\* history and check_log_file sets btn_undo again
UndoClicked ==
  /\ probe.kind = "gui"
  /\ probe.btn_undo
  /\ probe' = IF probe.logs[probe.selected_folder] = 0 THEN probe
              ELSE check_log_file([probe EXCEPT !.logs[probe.selected_folder] = @ - 1,
                                                !.undone = @ + 1])
  /\ UNCHANGED QuietVars

NextGui ==
  \/ SelectFolder
  \/ StartOrganization
  \/ WorkerFinishes
  \/ OperationFinished
  \/ UndoClicked

SpecGui == InitGui /\ [][NextGui]_vars

(* ================================ claims =============================== *)
AllDone == phase = "running" /\ \A w \in DOMAIN wk : wk[w].pc = "done"
InCritical(w) == wk[w].pc \in {"counting", "doc_stats", "stats", "except_locked"}
HistoryOf(f) == IF Exists(f, log_path) THEN f[log_path].runs ELSE <<>>

\* C1: two files of one run that resolve to the same name in the same target
\* directory end at two distinct destination paths and neither move replaces
\* a file, under every interleaving of the workers.
C1_CollisionSafety ==
  /\ \A i, j \in DOMAIN moved : i # j => moved[i].new_path # moved[j].new_path
  /\ \A i \in DOMAIN moved : ~moved[i].overwrote

\* C2: undo right after a run with N >= 1 successful moves (none of which
\* replaced a file, no restore failing) puts every moved file back at its
\* original path and leaves the history as it was before the run.
C2_RoundTrip ==
  (/\ last_op.op = "undo_after_run"
   /\ last_op.failed = 0
   /\ moved # <<>>
   /\ \A k \in DOMAIN moved : ~moved[k].overwrote)
  => /\ \A k \in DOMAIN moved :
          /\ Exists(fs, moved[k].old_path)
          /\ fs[moved[k].old_path] = at_start[moved[k].old_path]
     /\ last_op.restored = Len(moved)
     /\ HistoryOf(fs) = HistoryOf(at_start)
     /\ Exists(fs, log_path) = Exists(at_start, log_path)

\* the chunks one after the other
RECURSIVE Flatten(_)
Flatten(cs) == IF cs = <<>> THEN <<>> ELSE Head(cs).file_chunk \o Flatten(Tail(cs))

\* C3: the submitted chunks are non-empty, contiguous slices of the file list
\* starting at their start_index; in order they make up the list exactly:
\* every file is in exactly one chunk, in input order, the lengths sum to total.
C3_Partition ==
  (probe.kind = "chunks" /\ probe.done) =>
    LET cs == probe.submitted
        total == Len(probe.files)
    IN /\ Flatten(cs) = probe.files
       /\ Len(cs) <= probe.thread_count
       /\ \A i \in DOMAIN cs :
            /\ cs[i].file_chunk # <<>>
            /\ Len(cs[i].file_chunk) <= chunk_size(total, probe.thread_count)
            /\ cs[i].file_chunk =
                 SubSeq(probe.files, cs[i].start_index + 1,
                        cs[i].start_index + Len(cs[i].file_chunk))
       /\ cs # <<>> /\ cs[1].start_index = 0
       /\ \A i \in DOMAIN cs :
            i < Len(cs) => cs[i].start_index + Len(cs[i].file_chunk) = cs[i + 1].start_index
       /\ cs[Len(cs)].start_index + Len(cs[Len(cs)].file_chunk) = total

C3_Witness ==
  /\ probe.kind = "chunks" /\ probe.done
  /\ Len(probe.submitted) >= 2
  /\ Len(probe.submitted) < probe.thread_count
  /\ Len(probe.submitted[Len(probe.submitted)].file_chunk) < Len(probe.submitted[1].file_chunk)

\* C4: the history file never holds more than 5 runs, and a run with at least
\* one move that starts with 5 runs in the history ends with exactly 5: the
\* last 4 of the old ones, unchanged and in order, then the new run.
C4_HistoryBound ==
  /\ Len(HistoryOf(fs)) <= history_limit
  /\ (/\ last_op.op = "run"
      /\ log_entries # <<>>
      /\ Len(HistoryOf(at_start)) = history_limit)
     => /\ Len(HistoryOf(fs)) = history_limit
        /\ SubSeq(HistoryOf(fs), 1, history_limit - 1)
             = SubSeq(HistoryOf(at_start), 2, history_limit)
        /\ HistoryOf(fs)[history_limit].movements = log_entries

\* C5: the history file is excluded from scans: no chunk of a run holds its
\* path, so no worker classifies or moves it.
C5_LogExcluded ==
  phase = "running" =>
    \A w \in DOMAIN chunks : \A k \in DOMAIN chunks[w].file_chunk :
      basename(chunks[w].file_chunk[k]) # log_file

\* C6: for every requested count > 0, file count >= 0 and telemetry sample,
\* _optimize_thread_count returns a value in [1, min(requested, 32)].
C6_Range ==
  (probe.kind = "governor" /\ probe.done) =>
    /\ probe.result >= 1
    /\ probe.result <= Min(probe.requested_threads, absolute_ceiling)

\* no rule after rule 1 binds: telemetry is there, the optimisation is on,
\* the load and the memory are within their thresholds, and the count rule 1
\* gives is within the ceiling of the processor class
OnlyRule1(pr) ==
  /\ pr.enable_optimization /\ pr.t.psutil /\ ~pr.t.raises
  /\ pr.t.cpu_percent <= cpu_threshold
  /\ pr.t.memory_percent <= memory_threshold
  /\ pr.t.memory_mib >= low_ram_mib
  /\ (IF pr.total_files < pr.requested_threads * 2
        THEN Max(1, pr.total_files \div 2) ELSE pr.requested_threads)
       <= cpu_limit_of(cpu_count_of(pr.t))

\* C7: when no other rule binds, _optimize_thread_count returns
\* max(1, files div 2) for files < requested*2 and requested otherwise.
C7_FilesRule ==
  (probe.kind = "governor" /\ probe.done /\ OnlyRule1(probe)) =>
    probe.result = IF probe.total_files < probe.requested_threads * 2
                     THEN Max(1, probe.total_files \div 2)
                     ELSE probe.requested_threads

C7_Witness ==
  /\ probe.kind = "governor" /\ probe.done /\ OnlyRule1(probe)
  /\ probe.total_files < probe.requested_threads * 2
  /\ probe.total_files = 7
  /\ probe.result = 3

\* C8: an exception raised for one file stays in its worker: the raising step
\* changes nothing but that worker, the handler then appends one error entry
\* for the file and counts one skipped file while it holds the lock, releases
\* the lock and goes on with the next file of the chunk (or ends the chunk
\* with its last file); the other workers and the run go on.
C8_ExceptionContained ==
  [][\A w \in DOMAIN wk :
       /\ (/\ Running /\ wk[w].pc # "except"
           /\ w \in DOMAIN wk' /\ wk'[w].pc = "except")
          => /\ phase' = phase
             /\ stats' = stats /\ log_entries' = log_entries /\ fs' = fs
             /\ \A v \in DOMAIN wk : v # w => wk'[v] = wk[v]
       /\ (/\ Running /\ wk[w].pc = "except_locked"
           /\ w \in DOMAIN wk' /\ wk'[w].pc # "except_locked")
          => /\ lock = w /\ lock' = 0
             /\ phase' = phase
             /\ stats'.errors = Append(stats.errors,
                                  [filename |-> basename(filepath_of(w)), error |-> wk[w].err])
             /\ stats'.skipped_files = stats.skipped_files + 1
             /\ stats'.processed_files = stats.processed_files
             /\ wk'[w].i = wk[w].i + 1
             /\ wk'[w].pc = IF wk[w].i < Len(chunks[w].file_chunk) THEN "begin" ELSE "done"
             /\ \A v \in DOMAIN wk : v # w => wk'[v] = wk[v]
    ]_vars

C8_Witness ==
  /\ phase = "running"
  /\ \E w \in DOMAIN wk :
       /\ wk[w].i = 2 /\ wk[w].pc = "moved"
       /\ stats.errors # <<>>
       /\ stats.errors[1].filename = basename(chunks[w].file_chunk[1])
       /\ \E v \in DOMAIN wk : v # w /\ wk[v].pc = "done"

\* C9: a file whose shutil.move raised is still at its source path with its
\* content, has no move record and no counted move; once the workers are done
\* every raised exception has its error entry and its skipped count, and
\* processed_files and the move list count the successful moves only. No
\* file that was not moved is lost.
C9_MoveFailure ==
  phase = "running" =>
    /\ \A k \in DOMAIN raised :
         raised[k].error = "move" =>
           LET p == raised[k].filepath
           IN /\ Exists(fs, p) /\ fs[p] = at_start[p]
              /\ \A j \in DOMAIN log_entries : log_entries[j].old_path # p
              /\ \A j \in DOMAIN moved : moved[j].old_path # p
    /\ \A p \in DOMAIN at_start :
         (\A j \in DOMAIN moved : moved[j].old_path # p) => Exists(fs, p) /\ fs[p] = at_start[p]
    /\ AllDone =>
         /\ Len(stats.errors) = Len(raised)
         /\ \A k \in DOMAIN raised :
              \E j \in DOMAIN stats.errors :
                stats.errors[j] = [filename |-> basename(raised[k].filepath),
                                   error |-> raised[k].error]
         /\ stats.skipped_files =
              Cardinality(too_large(at_start, settings.include_subfolders)) + Len(raised)
         /\ stats.processed_files = Len(moved)
         /\ Len(log_entries) = Len(moved)

C9_Witness ==
  /\ AllDone
  /\ moved # <<>>
  /\ \E k \in DOMAIN raised : raised[k].error = "move"

\* C10: a worker that is reading or writing the shared statistics, the
\* counter or the move list holds the lock, and only one does; when all
\* workers have finished, processed_counter equals total_files and every
\* counter and histogram equals the number of events that incremented it.
C10_NoLostUpdate ==
  /\ \A w \in DOMAIN wk : InCritical(w) => lock = w
  /\ AllDone =>
       /\ processed_counter = stats.total_files
       /\ processed_counter = Len(Flatten(chunks))
       /\ stats.processed_files = Len(moved)
       /\ Len(log_entries) = Len(moved)
       /\ Len(stats.errors) = Len(raised)
       /\ stats.skipped_files =
            Cardinality(too_large(at_start, settings.include_subfolders)) + Len(raised)
       /\ \A c \in (DOMAIN stats.category_distribution)
                     \cup {moved[k].new_path.dir : k \in DOMAIN moved} :
            Get(stats.category_distribution, c)
              = Cardinality({k \in DOMAIN moved : moved[k].new_path.dir = c})

C10_Witness ==
  /\ AllDone
  /\ Len(wk) >= 2
  /\ Len(moved) >= 2
  /\ raised # <<>>

\* C11: the progress percentages emitted during one run never decrease, each
\* equals floor(100 * processedSoFar / totalFiles) for the counter value at its
\* emission and lies in 0..100, and the value emitted for the last file is 100.
C11_Progress ==
  probe.kind = "progress" =>
    /\ \A i, j \in DOMAIN probe.emitted : i <= j => probe.emitted[i] <= probe.emitted[j]
    /\ \A i \in DOMAIN probe.emitted :
         /\ probe.emitted[i] = progress_percent_exact(i, probe.total_files)
         /\ probe.emitted[i] \in 0..100
    /\ probe.processed_counter = probe.total_files
         => probe.emitted[Len(probe.emitted)] = 100

\* a step of undo_action that found a run to reverse, and one that returned at
\* once; with phase = "idle" no other operation leaves these marks in last_op
UndoStep == phase = "idle" /\ last_op'.op \in {"undo", "undo_after_run"}
NothingStep == phase = "idle" /\ last_op'.op = "undo_nothing"

\* C12: undo_action removes exactly the most recent run record from the history
\* file, however many of its moves could be restored, and leaves the earlier
\* records as they were and in their order; when the run undone was the only
\* one the history file is removed, not written as an empty list; with no
\* history file or an empty one undo moves no file and changes nothing.
C12_UndoPopsLast ==
  [][/\ UndoStep =>
          LET h == HistoryOf(fs)
          IN /\ h # <<>>
             /\ HistoryOf(fs') = SubSeq(h, 1, Len(h) - 1)
             /\ Len(h) = 1 => ~Exists(fs', log_path)
             /\ Len(h) > 1 => Exists(fs', log_path)
     /\ NothingStep =>
          /\ HistoryOf(fs) = <<>>
          /\ fs' = fs
          /\ last_op'.restored = 0 /\ last_op'.moved_back = {}]_vars

\* an undo in which a restore failed and which left earlier runs in the history
C12_Witness ==
  /\ last_op.op \in {"undo", "undo_after_run"}
  /\ last_op.failed > 0
  /\ HistoryOf(fs) # <<>>

\* C13: in undo_action the failure to restore one move record does not stop the
\* remaining reversals: every later record is still attempted, a record is
\* passed over only when its destination file is missing, and the restored
\* count is the number of records whose file was moved back from its
\* destination to its original path, the records with a missing destination or
\* a raising move not being counted.
C13_UndoContinues ==
  [][UndoStep =>
       LET M == last_movements(fs)
           att == last_op'.attempted
           back == last_op'.moved_back
       IN /\ back \subseteq att /\ att \subseteq DOMAIN M
          /\ last_op'.restored = Cardinality(back)
          /\ last_op'.failed = Cardinality(att \ back)
          /\ \A k \in (DOMAIN M) \ att :
               \/ ~Exists(fs, M[k].new_path)
               \/ \E j \in back : j < k /\ M[j].new_path = M[k].new_path
          /\ \A k \in back :
               (/\ M[k].old_path # log_path
                /\ \A j \in back : j > k => M[j].new_path # M[k].old_path)
               => Exists(fs', M[k].old_path)
          /\ \A k \in att \ back :
               (\A j \in back : j > k => M[j].new_path # M[k].new_path)
               => Exists(fs', M[k].new_path)]_vars

\* an undo in which a restore raised and a later record was moved back
C13_Witness ==
  /\ last_op.op \in {"undo", "undo_after_run"}
  /\ \E j \in last_op.attempted \ last_op.moved_back :
       \E k \in last_op.moved_back : j < k

\* a step that starts a run: a fresh worker object with fresh signals
StartsRun == phase = "idle" /\ budget'.runs < budget.runs

\* C14: every run emits exactly one finished event and it is the last event of
\* the run; finished(True) is emitted only after all workers completed and the
\* history was saved; an empty file list or a run-level critical error (the
\* traversal or the worker pool failing) yields finished(False).
C14_Finished ==
  [][/\ Len(signals'.finished) <= 1
     /\ (signals.finished # <<>> /\ signals' # signals) => StartsRun
     /\ (Running /\ phase' = "idle") => Len(signals'.finished) = 1
     /\ (StartsRun /\ phase' = "idle") => signals'.finished = <<FALSE>>
     /\ (Running /\ phase' = "idle" /\ signals'.finished = <<TRUE>>) =>
          /\ phase = "running"
          /\ \A w \in DOMAIN wk : wk[w].pc = "done"
          /\ log_entries # <<>> =>
               /\ HistoryOf(fs') # <<>>
               /\ HistoryOf(fs')[Len(HistoryOf(fs'))].movements = log_entries
     /\ (phase = "aborting" /\ phase' = "idle") => signals'.finished = <<FALSE>>
    ]_vars

\* C15: _keyword_analysis assigns a category only to a text that holds at
\* least 2 occurrences of that category's keywords, counted as tokens of the
\* text; with fewer than 2 the category is not detected.
C15_KeywordThreshold ==
  (probe.kind = "keywords" /\ probe.done) =>
    \A k \in DOMAIN categories :
      categories[k].name \in Range(probe.detected)
        => occurrences(categories[k], probe.text) >= keyword_threshold

\* the text of a file of the run, as it was when the run started
TextOf(p) == at_start[p].text
\* the files of the run that go through the document analysis
WasDocument(p) == settings.document_ai_modu /\ p.ext \in document_extensions

CleanDocRun ==
  /\ last_op.op = "run" /\ raised = <<>>
  /\ settings.document_ai_modu /\ ~settings.initialized
\* the documents and the other files that the run collected
RunFiles == collected(at_start, settings.include_subfolders)
RunDocs == {p \in RunFiles : WasDocument(p)}
RunOthers == {p \in RunFiles : ~WasDocument(p)}
EntryOf(p) == CHOOSE k \in DOMAIN log_entries : log_entries[k].old_path = p

\* what C17 says of a run whose documents all trigger exactly the category X
DocRunOutcome(X) ==
  /\ \A p \in RunDocs \cup RunOthers : \E k \in DOMAIN log_entries : log_entries[k].old_path = p
  /\ \A p \in RunDocs : log_entries[EntryOf(p)].category = <<X>>
  /\ \A p \in RunOthers :
       log_entries[EntryOf(p)].category = target_dir_of(_determine_category(p))
  /\ stats.processed_files = Cardinality(RunDocs) + Cardinality(RunOthers)
  /\ Get(stats.category_distribution, <<X>>) = Cardinality(RunDocs)

C18_NoFileDestroyed ==
  [][\A p \in DOMAIN fs :
       fs[p].kind = "file" =>
         /\ \E q \in DOMAIN fs' : fs'[q] = fs[p]
         /\ \A q, r \in DOMAIN fs' : (fs'[q] = fs[p] /\ fs'[r] = fs[p]) => q = r]_vars

\* C19: self.lock is held only for a counter or map update: a worker that
\* holds it in _process_file_chunk makes no file-system call and emits no
\* event.
C19_LockOnlyForUpdates == under_lock = {}

\* the files of the run whose loop iteration has ended: moved and recorded,
\* or recorded as an error
Completed == {<<w, k>> \in (DOMAIN wk) \X (1..MaxFiles + MaxArrivals) : k < wk[w].i}

\* C20: progress is reported after each file: when the value computed from the
\* counter value k is emitted, at least k files have finished being processed
\* (moved, or recorded as an error), and 100 is emitted only when no file of
\* the run is still waiting to be classified or moved.
C20_ProgressAfterFile ==
  Running =>
    /\ Len(signals.progress) <= Cardinality(Completed)
    /\ (\E n \in DOMAIN signals.progress : signals.progress[n] = 100)
         => \A w \in DOMAIN wk : wk[w].pc = "done"

\* the move has its record: original and destination path
Recorded(m) ==
  \E k \in DOMAIN log_entries :
    log_entries[k].old_path = m.old_path /\ log_entries[k].new_path = m.new_path
\* the worker that made the move has not yet left the critical section after it
BeingRecorded(m) ==
  \E w \in DOMAIN wk : wk[w].pc \in {"moved", "stats"} /\ filepath_of(w) = m.old_path

\* the move log of a run with its workers alive; at_once: a file has its record
\* as soon as it is moved, else once its worker has recorded it
MoveLogWhile(at_once) ==
  Running =>
    /\ lock = 0 => Len(log_entries) = stats.processed_files
    /\ \A j \in DOMAIN moved : (at_once \/ ~BeingRecorded(moved[j])) => Recorded(moved[j])
    /\ \A k \in DOMAIN log_entries :
         /\ \E j \in DOMAIN moved : moved[j].old_path = log_entries[k].old_path
         /\ \A l \in DOMAIN log_entries : log_entries[l].old_path = log_entries[k].old_path => l = k

\* a step of a run in which the move log or processed_files changes: one record
\* is appended, by the step that leaves the critical section in which
\* processed_files is incremented; the records before it stay as they are
MoveLogStep ==
  (Running /\ Running' /\ (log_entries' # log_entries \/ stats'.processed_files # stats.processed_files))
  => /\ lock # 0 /\ lock' = 0
     /\ Len(log_entries') = Len(log_entries) + 1
     /\ SubSeq(log_entries', 1, Len(log_entries)) = log_entries
     /\ stats'.processed_files = stats.processed_files + 1

\* C21 as stated: the move log has exactly one record per moved file, appended
\* in the critical section that increments processed_files and never changed
\* afterward; whenever the lock is free, len(log_entries) = processed_files and
\* every file physically moved by the run has a record with its original and
\* destination path.
C21_AsStated ==
  /\ [](lock = 0 => MoveLogWhile(TRUE))
  /\ [][MoveLogStep]_vars

\* C21, amended: the same, a moved file having its record once its worker has
\* left the critical section that follows the move (between shutil.move and
\* that critical section the file is moved and has no record yet).
C21_MoveLog ==
  /\ [](MoveLogWhile(FALSE))
  /\ [][MoveLogStep]_vars

\* two workers have moved and recorded a file each, one under a suffixed name
C21_Witness ==
  /\ AllDone /\ Len(moved) >= 2 /\ Len(log_entries) = Len(moved)
  /\ \E j \in DOMAIN moved : moved[j].new_path.sfx # <<>> /\ Recorded(moved[j])

\* the files handed to the workers of the run
RunList == Flatten(chunks)
\* the file was counted as processed: it has a move record
CountedProcessed(p) == \E k \in DOMAIN log_entries : log_entries[k].old_path = p
\* the file was counted as skipped by a worker: an exception was raised for it
CountedSkipped(p) == \E k \in DOMAIN raised : raised[k].filepath = p

\* C22: when the workers of a run have finished, every collected file is
\* accounted for exactly once: processed_files + the number of error entries
\* added by the workers = total_files, no file is counted both as processed and
\* as skipped, and skipped_files = the files skipped during collection + the
\* per-file errors.
C22_Accounting ==
  AllDone =>
    /\ Len(RunList) = stats.total_files
    /\ stats.processed_files + Len(stats.errors) = stats.total_files
    /\ \A k \in DOMAIN RunList : CountedProcessed(RunList[k]) # CountedSkipped(RunList[k])
    /\ Len(log_entries) = stats.processed_files
    /\ Len(raised) = Len(stats.errors)
    /\ stats.skipped_files =
         Cardinality(too_large(at_start, settings.include_subfolders)) + Len(stats.errors)

\* a finished run that skipped a file during collection, moved a file and
\* recorded an error for another
C22_Witness ==
  /\ AllDone
  /\ too_large(at_start, settings.include_subfolders) # {}
  /\ stats.processed_files = 1 /\ Len(stats.errors) = 1 /\ stats.total_files = 2
  /\ stats.skipped_files = 2

\* the file lies directly in the directory its category resolves to
InTargetDir(p) == p.dir = target_dir_of(_determine_category(p))

\* C23: a file that already lies directly in its resolved target directory is
\* left where it is, without a numeric suffix: a run with subfolder scanning
\* over an already organized tree moves and renames no file.
C23_OrganizedStays ==
  (Running \/ last_op.op \in {"run", "run_unsaved", "aborted"}) =>
    /\ \A p \in DOMAIN at_start :
         (~settings.document_ai_modu /\ InTargetDir(p)) => Exists(fs, p) /\ fs[p] = at_start[p]
    /\ \A j \in DOMAIN moved : moved[j].old_path.dir # moved[j].new_path.dir

\* no worker of the run has classified or moved a file yet
NothingTouched ==
  /\ moved = <<>> /\ log_entries = <<>> /\ signals.progress = <<>>
  /\ \A w \in DOMAIN wk : wk[w].pc = "begin" /\ wk[w].i = 1
\* the step ends a run: the final stats_update or the terminal event is
\* emitted, or a history is written (a history file that a worker moves keeps
\* its content)
WrittenHistories(f) == {f[p].runs : p \in {q \in DOMAIN f : f[q].kind = "log"}}
EndsRun ==
  \/ signals'.stats_update # signals.stats_update
  \/ signals'.finished # signals.finished
  \/ WrittenHistories(fs') # WrittenHistories(fs)

\* C24: the worker pool is sized once per run, by _optimize_thread_count,
\* before any file is classified or moved, and its size does not change during
\* the run; the scheduler blocks until every submitted chunk has completed, so
\* the final stats_update, the history save and the terminal event of a run
\* happen only after the last worker has finished its last file.
C24_SizedOnceThenJoined ==
  [][/\ (~Running /\ Running') =>
          /\ NothingTouched'
          /\ Len(chunks') <= max_workers'
          /\ \E t \in RunTelemetry :
               max_workers' = _optimize_thread_count(settings.enable_optimization, t,
                                                     stats'.total_files, settings.thread_count)
     /\ (Running /\ Running') =>
          /\ max_workers' = max_workers /\ chunks' = chunks /\ phase' = phase
          /\ ~EndsRun
     /\ (Running /\ ~Running') =>
          /\ \A w \in DOMAIN wk : wk[w].pc = "done" /\ wk[w].i = Len(chunks[w].file_chunk) + 1
          /\ lock = 0
          /\ Len(signals'.finished) = Len(signals.finished) + 1
          /\ stats'.processed_files = stats.processed_files /\ log_entries' = log_entries
  ]_vars

\* a run with a pool of two workers that has ended with finished(True) after
\* both workers moved their file
C24_Witness ==
  /\ last_op.op = "run" /\ signals.finished = <<TRUE>> /\ signals.stats_update = 1
  /\ max_workers = 2 /\ Len(moved) = 2 /\ stats.processed_files = 2

\* a worker has got to the file: it was moved, or an exception was raised for it
Touched(p) ==
  \/ \E j \in DOMAIN moved : moved[j].old_path = p
  \/ \E j \in DOMAIN raised : raised[j].filepath = p
\* the file was moved and recorded, or recorded as an error
Settled(p, entries, errors) ==
  \/ \E k \in DOMAIN entries : entries[k].old_path = p
  \/ \E k \in DOMAIN errors : errors[k].filename = basename(p)

\* every worker is at one file of its chunk: the files before it are settled,
\* the files after it untouched
InListOrder ==
  \A w \in DOMAIN wk :
    /\ wk[w].i \in 1..(Len(chunks[w].file_chunk) + 1)
    /\ \A k \in DOMAIN chunks[w].file_chunk :
         /\ k < wk[w].i => Settled(chunks[w].file_chunk[k], log_entries, stats.errors)
         /\ k > wk[w].i => ~Touched(chunks[w].file_chunk[k])
         /\ (k = wk[w].i /\ wk[w].pc = "begin") => ~Touched(chunks[w].file_chunk[k])

\* a worker goes on to the next file of its chunk, one at a time, in the step
\* that records the move or the error of the file it was at
OneAfterTheOther ==
  \A w \in DOMAIN wk :
    (Running /\ Running' /\ wk'[w].i # wk[w].i) =>
      /\ wk'[w].i = wk[w].i + 1
      /\ wk[w].pc \in {"stats", "except_locked"}
      /\ Settled(filepath_of(w), log_entries', stats'.errors)
      /\ ~ \E k \in DOMAIN log_entries : log_entries[k].old_path = filepath_of(w)
      /\ Len(log_entries') + Len(stats'.errors) = Len(log_entries) + Len(stats.errors) + 1

\* C25: per-chunk order is preserved: within one chunk a worker processes the
\* files strictly in list order and starts file i+1 only after file i was
\* moved or recorded as an error; at most effectiveWorkers chunks are in
\* progress at once; no ordering holds between files of different chunks.
C25_ChunkOrder ==
  /\ [](Running => (InListOrder /\ Len(chunks) <= max_workers))
  /\ [][OneAfterTheOther]_vars

\* a file of a later chunk is settled while the worker of the first chunk, past
\* its first file, has not begun with its second
C25_Witness ==
  /\ phase = "running" /\ Len(chunks) = 2
  /\ wk[2].pc = "done" /\ wk[1].pc = "begin" /\ wk[1].i = 2
  /\ Len(chunks[1].file_chunk) = 2

\* the points at which a worker asks for the lock
AtLock(w) == wk[w].pc \in {"begin", "classified", "moved", "except"}
\* a worker that has not finished its chunk can take a step, unless it is at
\* "with self.lock" and another worker holds the lock
WaitsOnlyForLock ==
  \A w \in DOMAIN wk :
    (Running /\ wk[w].pc # "done" /\ ~(AtLock(w) /\ lock # 0)) => ENABLED WorkerNext(w)

\* worker w has no file left (also when the run has no such worker)
ChunkFinished(w) == IF w \in DOMAIN wk THEN wk[w].pc = "done" ELSE TRUE

\* C26: every run over a finite file list terminates: the lock is released on
\* every path (also when an exception is raised in a critical section), no
\* worker waits for another except for the lock, every worker finishes its
\* chunk, and the terminal finished event is eventually emitted.
C26_Terminates ==
  /\ [](WaitsOnlyForLock)
  /\ \A w \in 1..MaxThreads : (lock = w) ~> (lock = 0)
  /\ \A w \in 1..MaxThreads : Running ~> ChunkFinished(w)
  /\ Running ~> (~Running /\ signals.finished # <<>>)

\* a run of two workers, one of which had an exception, that has ended
C26_Witness ==
  /\ ~Running /\ signals.finished = <<TRUE>>
  /\ max_workers = 2 /\ Len(raised) >= 1 /\ Len(moved) >= 1

\* the governor went through its rules: the optimisation is on and telemetry
\* was read
RulesApplied(pr) == pr.enable_optimization /\ pr.t.psutil /\ ~pr.t.raises
\* the worker count that rule 3 receives, and the one that rule 4 receives
BeforeRule3(pr) == rule2(cpu_count_of(pr.t), rule1(pr.total_files, pr.requested_threads))
BeforeRule4(pr) == rule3(pr.t.cpu_percent, BeforeRule3(pr))

\* C27: the load rules only cut and stay clamped to >= 1: with CPU utilisation
\* above 70% the count n becomes floor(0.6*n), at least 1; with memory
\* utilisation above 80% the count n' then becomes floor(0.7*n'), at least 1;
\* neither rule returns a count larger than the count it received.
C27_LoadRulesCut ==
  (probe.kind = "governor" /\ probe.done /\ RulesApplied(probe)) =>
    LET n == BeforeRule3(probe)
        m == BeforeRule4(probe)
    IN /\ probe.t.cpu_percent > cpu_threshold => m = Max(1, (n * 6) \div 10)
       /\ m <= n
       /\ probe.t.memory_percent > memory_threshold
            => rule4(probe.t.memory_percent, m) = Max(1, (m * 7) \div 10)
       /\ rule4(probe.t.memory_percent, m) <= m
       /\ probe.result = rule6(rule5(probe.t.memory_mib, rule4(probe.t.memory_percent, m)))

\* C28: with telemetry available and the optimisation enabled, the value
\* _optimize_thread_count returns never exceeds the hardware ceilings: it is
\* <= min(4, 2*cores) for <= 4 logical cores, <= min(8, 2*cores) for 5..8,
\* <= min(16, 2*cores) above 8, and <= 4 whenever total physical memory is
\* below 4 GiB, for every requested count, file count and load sample.
C28_HardwareCeilings ==
  (probe.kind = "governor" /\ probe.done /\ RulesApplied(probe)) =>
    LET cores == cpu_count_of(probe.t)
    IN /\ cores <= 4 => probe.result <= Min(4, 2 * cores)
       /\ (cores >= 5 /\ cores <= 8) => probe.result <= Min(8, 2 * cores)
       /\ cores > 8 => probe.result <= Min(16, 2 * cores)
       /\ probe.t.memory_mib < low_ram_mib => probe.result <= 4

\* one logical core under load, a large request and enough files: 2 threads
C28_Witness ==
  /\ probe.kind = "governor" /\ probe.done /\ RulesApplied(probe)
  /\ probe.t.cpu_count = 1 /\ probe.t.cpu_percent > cpu_threshold
  /\ probe.requested_threads = GovMaxRequested
  /\ probe.total_files >= 2 * cpu_limit_of(1)
  /\ probe.result = 2

\* the run record that the last run saved
SavedRecord == HistoryOf(fs)[Len(HistoryOf(fs))]

\* C29: the RunRecord persisted for a run records the requested worker count,
\* the actual worker count the scheduler used for the run, and the duration of
\* the run: actual_threads is the value _optimize_thread_count returned for
\* the run, processing_time the elapsed time of the run.
C29_RunRecord ==
  (last_op.op = "run" /\ log_entries # <<>>) =>
    /\ HistoryOf(fs) # <<>>
    /\ SavedRecord.movements = log_entries
    /\ SavedRecord.requested_threads = settings.thread_count
    /\ SavedRecord.actual_threads = max_workers
    /\ SavedRecord.processing_time = stats.processing_time
    /\ SavedRecord.processing_time > 0

\* the place of a category in DocumentAnalyzer.categories
table_index(name) == CHOOSE k \in DOMAIN categories : categories[k].name = name
\* the keyword hits and the semantic hits of a call, as one multiset
Hits(pr) ==
  _keyword_analysis(pr.text)
    \o (IF pr.initialized /\ text_chars(pr.text) > min_ai_length
          THEN _ai_analysis(pr.text) ELSE <<>>)

\* C30: analyze_content merges keyword hits and semantic hits into one
\* multiset and returns as main category the one with the highest combined
\* frequency; among categories of the same frequency the one that comes first
\* in the category table wins, whether they were detected by keywords, by the
\* semantic scorer, or both.
C30_MainCategory ==
  (/\ probe.kind = "content" /\ probe.done
   /\ text_chars(probe.text) >= min_content_length
   /\ Hits(probe) # <<>>)
  => LET c == probe.result.category
     IN /\ c \in Range(Hits(probe))
        /\ \A d \in Range(Hits(probe)) \ {c} :
             \/ count_in(Hits(probe), c) > count_in(Hits(probe), d)
             \/ /\ count_in(Hits(probe), c) = count_in(Hits(probe), d)
                /\ table_index(c) < table_index(d)

\* the keyword score of the category at place k of the table for a call
KeywordScore(pr, k) == score_of(categories[k].keywords, words_filtered(pr.text))
\* the places of the table whose category the keywords of the call detect
DetectedPlaces(pr) == {k \in DOMAIN categories : KeywordScore(pr, k) >= keyword_threshold}
\* with no pipeline loaded, a call on a text of at least `least` characters
\* returns the detected category that is first in the table
FirstDetectedWins(least) ==
  (/\ probe.kind = "content" /\ probe.done /\ ~probe.initialized
   /\ text_chars(probe.text) >= least
   /\ DetectedPlaces(probe) # {})
  => LET first == CHOOSE k \in DetectedPlaces(probe) : \A j \in DetectedPlaces(probe) : k <= j
     IN probe.result.category = categories[first].name

\* C31 as stated: with no semantic scorer, the main category returned for a
\* text is the first category in table order whose keyword score is >= 2,
\* however short the text is.
C31_AsStated == FirstDetectedWins(0)

\* C31: with no semantic scorer, the main category returned for a text of at
\* least 20 characters is the first category in table order whose keyword
\* score is >= 2, independent of how large the scores are: a later category
\* with a strictly higher keyword score never displaces an earlier detected
\* one.
C31_FirstDetected == FirstDetectedWins(min_content_length)

\* a call without pipeline in which a later category of the table has a
\* strictly higher keyword score than the one returned
C31_Witness ==
  /\ probe.kind = "content" /\ probe.done /\ ~probe.initialized
  /\ text_chars(probe.text) >= min_content_length
  /\ \E k, j \in DetectedPlaces(probe) :
       /\ k < j /\ KeywordScore(probe, j) > KeywordScore(probe, k)
       /\ probe.result.category = categories[k].name

\* the names of the category table
CategoryNames == {categories[k].name : k \in DOMAIN categories}
\* at most two names joined by an underscore
Glue(parts) ==
  IF parts = <<>> THEN ""
  ELSE IF Len(parts) = 1 THEN parts[1] ELSE parts[1] \o "_" \o parts[2]
UpToTwo == {<<>>} \cup {<<a>> : a \in CategoryNames}
             \cup {<<a, b>> : a, b \in CategoryNames}
\* what the keywords and the pipeline of the run detect in a text
\* (tabulated for the texts of the documents)
DetectedIn == [text \in DocTexts |-> [initialized \in BOOLEAN |->
                 Hits([text |-> text, initialized |-> initialized])]]
Detected(text) ==
  IF text \in DocTexts THEN DetectedIn[text][settings.initialized]
  ELSE Hits([text |-> text, initialized |-> settings.initialized])
\* `parts` are the runner-ups of main among the detected categories: the (at
\* most two) most frequent ones after main, the more frequent first
RunnerUps(all, main, parts) ==
  /\ \A i \in DOMAIN parts : parts[i] \in Range(all) \ {main}
  /\ Len(parts) = Min(2, Cardinality(Range(all) \ {main}))
  /\ Len(parts) = 2 => /\ parts[1] # parts[2]
                       /\ count_in(all, parts[1]) >= count_in(all, parts[2])
  /\ \A d \in Range(all) \ ({main} \cup Range(parts)) :
       \A i \in DOMAIN parts : count_in(all, parts[i]) >= count_in(all, d)

\* C32: up to two runner-up categories become the subcategory, joined by an
\* underscore in descending frequency order: the subcategory never contains
\* the main category, has at most two parts, is empty when only one category
\* was detected, and the file is then moved to <source>/<category>/<subcategory>
\* (or <source>/<category> when the subcategory is empty).
C32_Subcategory ==
  \A k \in DOMAIN moved :
    (WasDocument(moved[k].old_path) /\ TextOf(moved[k].old_path) # <<>>) =>
      LET text == TextOf(moved[k].old_path)
          all == Detected(text)
          analysed == text_chars(text) >= min_content_length /\ all # <<>>
          dir == moved[k].new_path.dir
          main == dir[1]
      IN /\ Len(dir) \in {1, 2}
         /\ \E parts \in UpToTwo :
              /\ dir = (IF parts = <<>> THEN <<main>> ELSE <<main, Glue(parts)>>)
              /\ \A i \in DOMAIN parts : parts[i] # main
              /\ analysed => /\ main \in Range(all)
                             /\ RunnerUps(all, main, parts)
              /\ ~analysed => parts = <<>>
              /\ Cardinality(Range(all)) <= 1 => parts = <<>>

\* a document in which five categories are detected, Finans and Kisisel twice,
\* was moved to Finans/Kisisel_Is: the more frequent runner-up comes first
\* although Is was detected before it
C32_Witness ==
  \E k \in DOMAIN moved :
    /\ WasDocument(moved[k].old_path) /\ settings.initialized
    /\ Cardinality(Range(Detected(TextOf(moved[k].old_path)))) = 5
    /\ first_at(Detected(TextOf(moved[k].old_path)), "Is")
         < first_at(Detected(TextOf(moved[k].old_path)), "Kisisel")
    /\ moved[k].new_path.dir = <<"Finans", "Kisisel_Is">>
    /\ Exists(fs, moved[k].new_path)

\* a document of the run from which extract_text gets fewer than 20
\* characters, the empty text included
ShortDocument(p) == WasDocument(p) /\ text_chars(TextOf(p)) < min_content_length

\* C33: in content mode, for a supported document whose extraction yields
\* fewer than 20 characters (the empty text included), the classifier returns
\* one and the same fallback category with empty signals and no subcategory:
\* any two such documents of a run are filed in the same category directory,
\* without a subdirectory, and recorded without detected objects.
C33_ShortTextFallback ==
  /\ \A k, j \in DOMAIN moved :
       (ShortDocument(moved[k].old_path) /\ ShortDocument(moved[j].old_path)) =>
         /\ Len(moved[k].new_path.dir) = 1
         /\ moved[k].new_path.dir = moved[j].new_path.dir
  /\ \A k \in DOMAIN log_entries :
       ShortDocument(log_entries[k].old_path) => log_entries[k].objects = <<>>

\* the labels of a pipeline result that are scored strictly above 0.30
LabelsAbove(outcome) ==
  {outcome.scored[i].label : i \in {j \in DOMAIN outcome.scored : outcome.scored[j].score > 30}}
\* the categories of a result
ResultCategories(r) == (Range(r.related) \cup {r.category}) \ {"Diger_Belgeler"}
\* the pipeline of the call is there, is asked and answers
ScorerUsed(pr) ==
  pr.initialized /\ text_chars(pr.text) > 100 /\ ~pr.outcome.raises

\* C34: semantic scoring is used only when a scorer is available and the text
\* is longer than 100 characters, and only labels with confidence strictly
\* above 0.30 count as detected; when the scorer is absent or its call fails,
\* analyze_content returns exactly the result of keyword-only classification
\* (and so returns at all: the file is still processed).
C34_SemanticScoring ==
  (probe.kind = "scorer" /\ probe.done) =>
    /\ ~ScorerUsed(probe) =>
         \A other \in Outcomes :
           probe.result = analyze_content_on(probe.text, FALSE, other)
    /\ ScorerUsed(probe) =>
         /\ ResultCategories(probe.result)
              \subseteq Range(_keyword_analysis(probe.text)) \cup LabelsAbove(probe.outcome)
         /\ LabelsAbove(probe.outcome) # {} => probe.result.category # "Diger_Belgeler"
         /\ Cardinality(Range(_keyword_analysis(probe.text)) \cup LabelsAbove(probe.outcome)) <= 3
              => ResultCategories(probe.result)
                   = Range(_keyword_analysis(probe.text)) \cup LabelsAbove(probe.outcome)

\* the scorer was used on a text of 101 characters and answered with one label
\* above 0.30 and one at 0.30: the first is among the result's categories, the
\* second is not
C34_Witness ==
  /\ probe.kind = "scorer" /\ probe.done /\ ScorerUsed(probe)
  /\ text_chars(probe.text) = 101
  /\ probe.outcome.scored[1].score = 31 /\ probe.outcome.scored[2].score = 30
  /\ probe.outcome.scored[1].label \in ResultCategories(probe.result)
  /\ probe.outcome.scored[2].label \notin ResultCategories(probe.result)

\* a run has ended (with or without files, saved or not, finished or aborted)
\* in which shutil.move moved no file, and nothing was done since
EndedWithoutMove ==
  /\ phase = "idle" /\ moved = <<>>
  /\ last_op.op \in {"run", "run_unsaved", "aborted", "empty_run"}

\* C35: a run in which no file was successfully moved (every file failed, or
\* none was collected) appends no RunRecord: the persisted history file is left
\* exactly as it was when the run started, so a following undo reverses the
\* previous run that did move files.
C35_NoMoveNoRecord ==
  EndedWithoutMove =>
    /\ Exists(fs, log_path) = Exists(at_start, log_path)
    /\ Exists(fs, log_path) => fs[log_path] = at_start[log_path]
    /\ undo_enabled(fs) = undo_enabled(at_start)
    /\ last_movements(fs) = last_movements(at_start)

\* a run over files that all failed has ended with finished(True) while the
\* history file holds the record of an earlier run that moved a file
C35_Witness ==
  /\ EndedWithoutMove /\ last_op.op = "run"
  /\ stats.total_files > 0 /\ Len(raised) = stats.total_files
  /\ undo_enabled(fs) /\ last_movements(fs) # <<>>

\* the runs in flight: started by start_organization, their terminal event
\* not yet handled by operation_finished
InFlight == {i \in DOMAIN probe.workers : probe.workers[i].state # "handled"}

\* C36: at most one organizer run is in flight at a time and undo cannot be
\* invoked while a run is in flight: from start_organization until the run's
\* terminal event is handled by operation_finished, no user action sequence
\* (selecting a folder included) re-enables the start or undo controls.
C36_OneRunInFlight ==
  probe.kind = "gui" =>
    /\ Cardinality(InFlight) <= 1
    /\ InFlight # {} => /\ ~probe.btn_start /\ ~probe.btn_ai /\ ~probe.btn_document_ai
                        /\ ~probe.btn_undo

\* `parts` names the longest words of the caption: as many as it has, at most
\* two, and no word left out is longer than one of them
TwoLongest(parts, caption) ==
  \E I \in SUBSET (DOMAIN caption) :
    /\ Cardinality(I) = Min(2, Len(caption))
    /\ Range(parts) = {caption[i].w : i \in I}
    /\ \A i \in I, j \in (DOMAIN caption) \ I : caption[i].len >= caption[j].len

\* C37: for image-style classification, if zero objects pass the threshold
\* the fallback category is derived from the two longest caption words;
\* otherwise the category name is composed from the top one or two detected
\* objects, and the detected-object list never has more than the configured
\* maximum (default 3) entries.
C37_ImageCategory ==
  (probe.kind = "image" /\ probe.done) =>
    /\ Len(probe.objects) <= probe.max_objects
    /\ (probe.objects = <<>> /\ probe.caption # <<>>) =>
         TwoLongest(probe.category.parts, probe.caption)
    /\ probe.objects # <<>> =>
         probe.category.parts = SubSeq(probe.objects, 1, Min(2, Len(probe.objects)))

\* the places of the sentences of a text whose stripped length exceeds 10
ValidPlaces(text) == {k \in DOMAIN text : text[k] > 10}

\* C38: _create_summary returns, for a text with at least one valid sentence
\* (trimmed length > 10), a summary that starts with the first valid sentence,
\* uses at most the first 3 valid sentences, and is truncated with an ellipsis
\* when the 150-character maximum is reached (so it is non-empty and at most
\* 153 characters long); with no valid sentence it returns a raw prefix of at
\* most 150 characters plus ellipsis.
C38_Summary ==
  (probe.kind = "summary" /\ probe.done) =>
    LET valid == ValidPlaces(probe.text)
        used == probe.summary.sentences
    IN /\ valid # {} =>
            /\ used # <<>>
            /\ used[1] = CHOOSE k \in valid : \A j \in valid : k <= j
            /\ Len(used) <= 3
            /\ \A i \in DOMAIN used :
                 used[i] \in valid /\ Cardinality({j \in valid : j < used[i]}) = i - 1
            /\ probe.summary.chars > 0
            /\ probe.summary.chars <= 153
       /\ (valid = {} /\ probe.text # <<>>) =>
            /\ used = <<>>
            /\ probe.summary.prefix <= 150
            /\ probe.summary.chars <= 153


====
